---------------------------- MODULE Spec2Model ----------------------------
(***************************************************************************)
(* A state-machine model of mavproxy.py, the MAVLink ground-control proxy. *)
(*                                                                         *)
(* The model follows the source: the MPState/MPStatus/MPSettings fields    *)
(* are the variables, every function of the source that changes them is an *)
(* action (or an operator used by one), and time.time() is the integer     *)
(* clock `now` (seconds).  Usec timestamps are integers (microseconds).    *)
(***************************************************************************)
EXTENDS Integers, Sequences, FiniteSets, TLC

(***************************************************************************)
(* Bounds of the model.                                                    *)
(***************************************************************************)
\* number of --master links the program may be started with (1..MaxLinks)
MaxLinks == 2
\* operator `set link <n>` arguments range over -MaxLinkArg .. MaxLinkArg
MaxLinkArg == 4
\* inbound work the model follows: messages decoded plus empty reads
MaxMsgs == 3
\* seconds the clock may advance past StartTime
MaxTime == 20
\* seconds the clock advances by between two looks at it
TickStep == 10
\* waypoints in a file given to `wp load` (0..MaxWp)
MaxWp == 2
\* --out links the program is started with
MaxOutputs == 2
\* lines the operator types
MaxLines == 3
\* --master options of a ground station with many links
MaxJournalLinks == 5

\* time.time() when the program starts (seconds; any value above the 5 s and
\* 10 s windows, as the wall clock is)
StartTime == 20

VARIABLES
    \* ---- MPSettings
    settings_link,      \* settings.link: 1-based preferred link
    settings_numcells,  \* settings.numcells (--num-cells, default 0)
    settings_radiosetup, \* settings.radiosetup (default 0)
    settings_mavfwd,    \* settings.mavfwd (default 1)
    \* ---- MPState
    mav_master,         \* mpstate.mav_master: sequence of link records
    mav_outputs,        \* mpstate.mav_outputs: frames written to each output
    mav_param,          \* mpstate.mav_param: param_id -> value
    logqueue,           \* mpstate.logqueue (parsed log queue)
    logqueue_raw,       \* mpstate.logqueue_raw (raw log queue)
    logfile,            \* records written to mpstate.logfile
    logfile_raw,        \* chunks written to mpstate.logfile_raw
    \* ---- MPStatus
    MasterIn,           \* status.counters['MasterIn'], one entry per link
    mav_error,          \* status.mav_error
    highest_usec,       \* status.highest_usec (the link set's clock)
    target_system,      \* status.target_system
    target_component,   \* status.target_component
    heartbeat_error,    \* status.heartbeat_error
    last_heartbeat,     \* status.last_heartbeat
    msgs,               \* status.msgs: type -> last message
    msg_count,          \* status.msg_count: type -> count
    wp_op,              \* status.wp_op: "None", "list" or "save"
    wploader,           \* status.wploader: [wpoints, expected_count]
    loading_waypoints,  \* status.loading_waypoints
    loading_waypoint_lasttime, \* status.loading_waypoint_lasttime
    battery_level,      \* status.battery_level
    setup_mode,         \* status.setup_mode
    \* ---- control state of the threads
    main_pc,            \* main_loop thread: "loop", "parse" or "dead"
    parse_link,         \* process_master: the link being parsed
    parse_buf,          \* process_master: messages parse_buffer has yet to deliver
    parse_msgs,         \* process_master: all messages of the chunk (msgs)
    lw_pc,              \* log_writer thread position
    ps,                 \* the frame of param_set() while it runs
    Slave,              \* status.counters['Slave']
    status_exit,        \* status.exit
    rl_line,            \* rl.line, the operator mailbox (NoLine for None)
    in_pc,              \* input_loop thread: "wait", "read", "put" or "done"
    in_line,            \* input_loop's local `line`
    MasterOut,          \* status.counters['MasterOut']
    status_override,    \* status.override, the eight RC override values
    sitl_output,        \* whether mpstate.sitl_output is set (--sitl)
    last_battery_announce, \* status.last_battery_announce
    now,                \* time.time(), in seconds
    \* ---- observation (not program state)
    ev,                 \* the last operation: its inputs and what it emitted
    obs                 \* running tallies the claims speak of

\* the variables that only the actions naming them change
rcVars       == <<MasterOut, status_override, sitl_output, last_battery_announce>>
restVars     == <<settings_numcells, settings_radiosetup, settings_mavfwd, ps,
                  Slave, status_exit, rl_line, in_pc, in_line, rcVars>>
\* restVars less those param_set works on
paramRest    == <<settings_mavfwd, Slave, status_exit, rl_line, in_pc, in_line,
                  rcVars>>
settingsVars == <<settings_link, restVars>>
journalVars  == <<logqueue, logqueue_raw, logfile, logfile_raw, lw_pc>>
hbVars       == <<target_system, target_component, heartbeat_error, last_heartbeat>>
mirrorVars   == <<msgs, msg_count>>
wpVars       == <<wp_op, wploader, loading_waypoints, loading_waypoint_lasttime>>
parseVars    == <<main_pc, parse_link, parse_buf, parse_msgs>>
statusVars   == <<MasterIn, mav_error, highest_usec, hbVars, mirrorVars, wpVars,
                  battery_level, setup_mode>>
vars == <<settingsVars, mav_master, mav_outputs, mav_param, journalVars,
          statusVars, parseVars, now, ev, obs>>

(***************************************************************************)
(* Values.                                                                 *)
(***************************************************************************)
\* getattr(m, 'usec', None): the value standing for None
NoUsec == -1

\* a decoded MAVLink message; fields a type does not carry are NoUsec / 0
Msg(t) == [type |-> t, usec |-> NoUsec, seq |-> 0, count |-> 0, x |-> 0,
           srcSystem |-> 0, srcComponent |-> 0, param_id |-> "", param_value |-> 0]

NoMsg == Msg("None")

\* the sum of a sequence of numbers
RECURSIVE SumSeq(_)
SumSeq(q) == IF q = <<>> THEN 0 ELSE Head(q) + SumSeq(Tail(q))

\* a Python dict: the empty one, and d[k] = v
EmptyMap == [k \in {} |-> 0]

Put(d, k, v) == [j \in DOMAIN d \cup {k} |-> IF j = k THEN v ELSE d[j]]

\* m.linkerror, m.link_delayed, m.last_heartbeat, m.highest_usec at start-up
NewLink == [linkerror |-> FALSE, link_delayed |-> FALSE,
            last_heartbeat |-> 0, highest_usec |-> 0]

Links == 1..Len(mav_master)

\* the observation of an operation of kind k on link l with message m
Ev(k, l, m) == [kind |-> k, link |-> l, m |-> m, dropped |-> FALSE,
                raised |-> FALSE, fanout |-> FALSE,
                sent |-> <<>>, said |-> <<>>, ret |-> 0, arg |-> 0]

\* load: the last `wp load` (n waypoints, at time `at`, ok unless it raised);
\* reqs: the waypoint requests the callback has seen since then
NoObs == [bad |-> 0, delayed |-> 0, bad_or_delayed |-> 0, raised |-> 0,
          work |-> 0, load |-> [n |-> 0, at |-> 0, ok |-> FALSE], reqs |-> <<>>,
          placed |-> <<>>, handled |-> <<>>, hb |-> NoMsg]

(***************************************************************************)
(* The state after construction with n master links and k outputs: the     *)
(* MPSettings, MPStatus and MPState constructors and the start-up code.     *)
(***************************************************************************)
\* param_set is not running
\* (seen: the param_ids recv_match has returned to it, for the claims)
NoPs == [pc |-> "idle", name |-> "", retries |-> 0, got_ack |-> FALSE,
         sends |-> 0, slept |-> 0, origin |-> "none", m |-> NoMsg, link |-> 0,
         seen |-> {}]

\* rl.line is None
NoLine == 0

\* `[ 0 ] * 8`
ZeroOverride == [i \in 1..8 |-> 0]

\* nothing is running besides the engine loop, and no line is pending
QuietStart ==
    /\ ps = NoPs
    /\ Slave = 0
    /\ status_exit = FALSE
    /\ rl_line = NoLine
    /\ in_pc = "wait"
    /\ in_line = NoLine
    /\ MasterOut = 0
    /\ status_override = ZeroOverride
    /\ last_battery_announce = 0

\* the state after start-up with the given links, k outputs and the
\* targets ts, tc taken from the command line
OptsState(masters, k, cells, setup, ts, tc) ==
    /\ settings_link = 1
    /\ settings_numcells = cells
    /\ mav_master = masters
    /\ mav_outputs = [i \in 1..k |-> 0]
    /\ mav_param = EmptyMap
    /\ logqueue = <<>>
    /\ logqueue_raw = <<>>
    /\ logfile = <<>>
    /\ logfile_raw = <<>>
    /\ MasterIn = [i \in DOMAIN masters |-> 0]
    /\ mav_error = 0
    /\ highest_usec = 0
    /\ target_system = ts
    /\ target_component = tc
    /\ heartbeat_error = FALSE
    /\ last_heartbeat = 0
    /\ msgs = EmptyMap
    /\ msg_count = EmptyMap
    /\ wp_op = "None"
    /\ wploader = [wpoints |-> <<>>, expected_count |-> 0]
    /\ loading_waypoints = FALSE
    /\ loading_waypoint_lasttime = StartTime
    /\ battery_level = -1
    /\ setup_mode = setup
    /\ main_pc = "loop"
    /\ parse_link = 0
    /\ parse_buf = <<>>
    /\ parse_msgs = <<>>
    /\ lw_pc = "get_raw"
    /\ now = StartTime
    /\ QuietStart
    /\ ev = Ev("init", 0, NoMsg)
    /\ obs = NoObs

\* start-up with n fresh links and no target options
BaseState(n, k, cells, setup) ==
    OptsState([i \in 1..n |-> NewLink], k, cells, setup, -1, -1)

StartState(n, k, cells, setup) ==
    /\ BaseState(n, k, cells, setup)
    /\ settings_radiosetup = FALSE
    /\ settings_mavfwd = 1
    /\ sitl_output = FALSE

(***************************************************************************)
(* MPState.master(): the currently chosen master.                          *)
(***************************************************************************)
\* Python's s[i] on a sequence of length n: the 1-based position read, or 0
\* when the index is out of range (IndexError)
PyIndex(i, n) == IF 0 <= i /\ i < n THEN i + 1
                 ELSE IF i < 0 /\ -n <= i THEN i + n + 1
                 ELSE 0

\* settings.link after the normalisation at the top of master()
master_link(link, masters) == IF link > Len(masters) THEN 1 ELSE link

\* variant: the first healthy link wins over the preferred one
master_of_first_healthy(link, masters) ==
    LET p == PyIndex(master_link(link, masters) - 1, Len(masters))
        healthy == {i \in 1..Len(masters) : ~masters[i].linkerror}
    IN  IF p = 0 THEN 0
        ELSE IF healthy # {} THEN CHOOSE i \in healthy : \A j \in healthy : i <= j
        ELSE p

\* the 1-based position of the link master() returns, 0 for IndexError
master_of(link, masters) ==
    LET p == PyIndex(master_link(link, masters) - 1, Len(masters))
        healthy == {i \in 1..Len(masters) : ~masters[i].linkerror}
    IN  IF p = 0 THEN 0
        ELSE IF ~masters[p].linkerror THEN p
        ELSE IF healthy # {} THEN CHOOSE i \in healthy : \A j \in healthy : i <= j
        ELSE p

master == master_of(settings_link, mav_master)

(***************************************************************************)
(* handle_usec_timestamp: the link-delay state machine.                    *)
(***************************************************************************)
\* the wrap window, the delay-onset lag and the recovery lag (microseconds)
WrapUsec == 60000000
DelayUsec == 1000000
RecoverUsec == 500000

\* `usec + 6.0e7 < master.highest_usec`
usec_wrapped(usec, link_highest) == usec + WrapUsec < link_highest

\* variant: the onset window taken twice as long
delay_onset_late(usec, highest, delayed) ==
    usec + DelayUsec + DelayUsec < highest /\ ~delayed

\* `usec + 1e6 < mpstate.status.highest_usec and not master.link_delayed`
delay_onset(usec, highest, delayed) == usec + DelayUsec < highest /\ ~delayed

\* variant: a delayed link that never recovers
delay_recovery_never(usec, highest, delayed) == FALSE

\* variant: recovery also at equality
delay_recovery_at_equality(usec, highest, delayed) ==
    usec + RecoverUsec >= highest /\ delayed

\* `usec + 0.5e6 > mpstate.status.highest_usec and master.link_delayed`
delay_recovery(usec, highest, delayed) == usec + RecoverUsec > highest /\ delayed

\* variant: a wrap that resets the clocks but leaves link_delayed
wrap_reset_keeps_delay(usec, masters) ==
    [i \in DOMAIN masters |-> [masters[i] EXCEPT !.highest_usec = usec]]

\* the links a wrap leaves: every link reset to the wrapping usec
wrap_reset(usec, masters) ==
    [i \in DOMAIN masters |->
        [masters[i] EXCEPT !.link_delayed = FALSE, !.highest_usec = usec]]

\* variant: the set-wide clock follows the latest message
set_highest_latest(usec, highest) == usec

\* `if usec > mpstate.status.highest_usec: mpstate.status.highest_usec = usec`
set_highest(usec, highest) == IF usec > highest THEN usec ELSE highest

\* the links, the set-wide highest_usec and the announcements after message
\* m (which carries usec) on link l
handle_usec_timestamp(m, l) ==
    LET usec == m.usec
        hi   == set_highest(usec, highest_usec)
        upd  == [mav_master EXCEPT ![l].highest_usec = usec]
    IN  IF usec_wrapped(usec, mav_master[l].highest_usec)
        THEN [masters |-> wrap_reset(usec, mav_master), highest |-> usec,
              said |-> <<"Time has wrapped">>]
        ELSE IF delay_onset(usec, hi, mav_master[l].link_delayed)
        THEN [masters |-> [upd EXCEPT ![l].link_delayed = TRUE], highest |-> hi,
              said |-> <<"link delayed">>]
        ELSE IF delay_recovery(usec, hi, mav_master[l].link_delayed)
        THEN [masters |-> [upd EXCEPT ![l].link_delayed = FALSE], highest |-> hi,
              said |-> <<"link OK">>]
        ELSE [masters |-> upd, highest |-> hi, said |-> <<>>]

(***************************************************************************)
(* The parsed-log record of master_callback:                               *)
(*   usec = (get_usec() & ~3) | master.linknum, then the frame bytes.      *)
(***************************************************************************)
\* get_usec(): int(time.time() * 1.0e6)
get_usec == now * 1000000

RECURSIVE BitOr(_, _)
BitOr(a, b) == IF a = 0 THEN b
               ELSE IF b = 0 THEN a
               ELSE 2 * BitOr(a \div 2, b \div 2)
                    + (IF a % 2 = 1 \/ b % 2 = 1 THEN 1 ELSE 0)

\* x & ~3
ClearLow2(x) == x - (x % 4)

log_record(m, l) == [stamp |-> BitOr(ClearLow2(get_usec), l - 1), frame |-> m]

(***************************************************************************)
(* The per-type handlers of master_callback.  Each gives the variables the *)
(* handlers own (hbVars, wpVars, mav_param, battery_level, the links) and  *)
(* the frames it sends; h is the result of the usec handling.              *)
(***************************************************************************)
WaypointTimeout == 10

\* a frame written to master link l
Sent(l, f) == [link |-> l, frame |-> f]

\* variant: a heartbeat that vouches for every link
on_heartbeat_all_links(m, l, masters) ==
    /\ target_system' = m.srcSystem
    /\ target_component' = m.srcComponent
    /\ heartbeat_error' = FALSE
    /\ last_heartbeat' = now
    /\ mav_master' = [i \in DOMAIN masters |->
                         [masters[i] EXCEPT !.linkerror = FALSE,
                                            !.last_heartbeat = now]]
    /\ UNCHANGED <<wpVars, mav_param, battery_level>>

\* variant: a heartbeat that leaves the link's error flag as it is
on_heartbeat_keeps_error(m, l, masters) ==
    /\ target_system' = m.srcSystem
    /\ target_component' = m.srcComponent
    /\ heartbeat_error' = FALSE
    /\ last_heartbeat' = now
    /\ mav_master' = [masters EXCEPT ![l].last_heartbeat = now]
    /\ UNCHANGED <<wpVars, mav_param, battery_level>>

on_heartbeat(m, l, masters) ==
    /\ target_system' = m.srcSystem
    /\ target_component' = m.srcComponent
    /\ heartbeat_error' = FALSE
    /\ last_heartbeat' = now
    /\ mav_master' = [masters EXCEPT ![l].linkerror = FALSE,
                                     ![l].last_heartbeat = now]
    /\ UNCHANGED <<wpVars, mav_param, battery_level>>

on_param_value(m, l, masters) ==
    /\ mav_param' = Put(mav_param, m.param_id, m.param_value)
    /\ mav_master' = masters
    /\ UNCHANGED <<hbVars, wpVars, battery_level>>

\* WAYPOINT_COUNT / MISSION_COUNT
on_waypoint_count(m, l, masters) ==
    /\ wploader' = IF wp_op = "None" THEN wploader
                   ELSE [wpoints |-> <<>>, expected_count |-> m.count]
    /\ mav_master' = masters
    /\ UNCHANGED <<hbVars, wp_op, loading_waypoints, loading_waypoint_lasttime,
                   mav_param, battery_level>>

\* variant: a download that takes every item as the next one
on_waypoint_any_seq(m, l, masters) ==
    /\ wploader' = [wploader EXCEPT !.wpoints = Append(@, m)]
    /\ wp_op' = IF m.seq + 1 < wploader.expected_count THEN wp_op ELSE "None"
    /\ mav_master' = masters
    /\ UNCHANGED <<hbVars, loading_waypoints, loading_waypoint_lasttime,
                   mav_param, battery_level>>

\* WAYPOINT / MISSION_ITEM while wp_op is set
on_waypoint(m, l, masters) ==
    /\ wploader' = IF m.seq = Len(wploader.wpoints)
                   THEN [wploader EXCEPT !.wpoints = Append(@, m)]
                   ELSE wploader
    /\ wp_op' = IF m.seq + 1 < wploader.expected_count THEN wp_op ELSE "None"
    /\ mav_master' = masters
    /\ UNCHANGED <<hbVars, loading_waypoints, loading_waypoint_lasttime,
                   mav_param, battery_level>>

\* an upload that never times out
wp_request_refused_only_idle == ~loading_waypoints

\* process_waypoint_request: the request is refused (not loading, or timed out)
wp_request_refused ==
    ~loading_waypoints \/ now > loading_waypoint_lasttime + WaypointTimeout

\* process_waypoint_request: the request is served
wp_request_served(m) == ~wp_request_refused /\ m.seq < Len(wploader.wpoints)

process_waypoint_request(m, l, masters) ==
    /\ loading_waypoints' =
          IF wp_request_refused THEN FALSE
          ELSE IF m.seq >= Len(wploader.wpoints) THEN loading_waypoints
          ELSE IF m.seq = Len(wploader.wpoints) - 1 THEN FALSE
          ELSE loading_waypoints
    /\ loading_waypoint_lasttime' =
          IF wp_request_served(m) THEN now ELSE loading_waypoint_lasttime
    /\ mav_master' = masters
    /\ UNCHANGED <<hbVars, wp_op, wploader, mav_param, battery_level>>

\* battery_update raises ZeroDivisionError: AP_ADC was seen and numcells is 0
battery_update_raises == "AP_ADC" \in DOMAIN msgs /\ settings_numcells = 0

\* SYS_STATUS: battery_update (the avionics level itself is not modelled)
on_sys_status(m, l, masters) ==
    /\ battery_level' = m.x
    /\ mav_master' = masters
    /\ UNCHANGED <<hbVars, wpVars, mav_param>>

\* every other type: no handler state
on_other(m, l, masters) ==
    /\ mav_master' = masters
    /\ UNCHANGED <<hbVars, wpVars, mav_param, battery_level>>

\* a loader that answers every request with its first waypoint
loader_wp_first(seq) == wploader.wpoints[1]

\* wploader.wp(seq)
loader_wp(seq) == wploader.wpoints[seq + 1]

\* the frames the handler of m sends to link l
handler_sent(m, l) ==
    IF m.type = "WAYPOINT_COUNT" /\ wp_op # "None"
    THEN <<Sent(l, [Msg("WAYPOINT_REQUEST") EXCEPT !.seq = 0])>>
    ELSE IF m.type = "WAYPOINT" /\ wp_op # "None"
            /\ m.seq + 1 < wploader.expected_count
    THEN <<Sent(l, [Msg("WAYPOINT_REQUEST") EXCEPT !.seq = m.seq + 1])>>
    ELSE IF m.type = "WAYPOINT_REQUEST" /\ wp_request_served(m)
    THEN <<Sent(l, loader_wp(m.seq))>>
    ELSE <<>>

\* what the handler of m announces (say)
handler_said(m, l, masters) ==
    IF m.type = "HEARTBEAT"
    THEN (IF target_system # m.srcSystem \/ target_component # m.srcComponent
          THEN <<"online system">> ELSE <<>>)
         \o (IF heartbeat_error THEN <<"heartbeat OK">> ELSE <<>>)
         \o (IF masters[l].linkerror THEN <<"link OK">> ELSE <<>>)
    ELSE <<>>

\* the handler chain of master_callback (the if/elif on mtype)
handler(m, l, masters) ==
    CASE m.type = "HEARTBEAT"        -> on_heartbeat(m, l, masters)
      [] m.type = "PARAM_VALUE"      -> on_param_value(m, l, masters)
      [] m.type = "WAYPOINT_COUNT"   -> on_waypoint_count(m, l, masters)
      [] m.type = "WAYPOINT" /\ wp_op # "None" -> on_waypoint(m, l, masters)
      [] m.type = "WAYPOINT_REQUEST" -> process_waypoint_request(m, l, masters)
      [] m.type = "SYS_STATUS"       -> on_sys_status(m, l, masters)
      [] OTHER                       -> on_other(m, l, masters)

\* the handler of m raises (the exception leaves master_callback)
handler_raises(m) == m.type = "SYS_STATUS" /\ battery_update_raises

\* a callback that processes the messages of a delayed link too
skip_never(link) == FALSE

\* `if master.link_delayed: ... return`: the message is not processed
skip_delayed(link) == link.link_delayed

\* a fan-out that passes bad data along as well
fan_out_all(m, outputs) == [o \in DOMAIN outputs |-> outputs[o] + 1]

\* `if mtype != "BAD_DATA": for r in mpstate.mav_outputs: r.write(...)`,
\* each output counted by the frames written to it
fan_out(m, outputs) ==
    IF m.type # "BAD_DATA"
    THEN [o \in DOMAIN outputs |-> outputs[o] + 1]
    ELSE outputs

\* get_mav_param(param, default)
get_mav_param(name, default) ==
    IF name \in DOMAIN mav_param THEN mav_param[name] ELSE default

\* RC_CHANNELS_RAW with settings.radiosetup: channel 1 (m.x) is outside the
\* RC1_MIN..RC1_MAX the parameter table holds, and the link is not delayed, so
\* the handler calls param_set.  (Channels 2..8 are handled alike.)
starts_param_set(m, l) ==
    /\ m.type = "RC_CHANNELS_RAW"
    /\ settings_radiosetup
    /\ ~mav_master[l].link_delayed
    /\ (get_mav_param("RC1_MIN", 0) > m.x \/ get_mav_param("RC1_MAX", 0) < m.x)

(***************************************************************************)
(* master_callback(m, master): one message m decoded on link l.            *)
(***************************************************************************)
\* variant: the fan-out placed ahead of the handlers
fans_out_before_handler(dropped, raised) == ~dropped

\* the callback reaches its last lines, the fan-out: it has not returned for
\* a delayed link and no handler has raised
fans_out(dropped, raised) == ~dropped /\ ~raised

\* whole: the callback runs to its end in one step.  Otherwise it stops
\* after `mpstate.status.msgs[m.get_type()] = m` (main_pc "mirror_test"),
\* unless it has returned or raised before that line.
master_callback_to(m, l, whole) ==
    LET h == IF m.usec # NoUsec THEN handle_usec_timestamp(m, l)
             ELSE [masters |-> mav_master, highest |-> highest_usec, said |-> <<>>]
        bad     == m.type = "BAD_DATA"
        dropped == skip_delayed(h.masters[l])
        raised  == ~dropped /\ handler_raises(m)
        done    == ~dropped /\ ~raised
    IN  /\ MasterIn' = [MasterIn EXCEPT ![l] = @ + 1]
        /\ highest_usec' = h.highest
        /\ logqueue' = IF bad THEN logqueue ELSE Append(logqueue, log_record(m, l))
        /\ IF dropped
           THEN /\ mav_master' = h.masters
                /\ UNCHANGED <<hbVars, wpVars, mav_param, battery_level>>
           ELSE handler(m, l, h.masters)
        /\ msgs' = IF done THEN Put(msgs, m.type, m) ELSE msgs
        /\ msg_count' = IF done /\ whole
                        THEN Put(msg_count, m.type,
                                 IF m.type \in DOMAIN msg_count
                                 THEN msg_count[m.type] + 1 ELSE 1)
                        ELSE msg_count
        /\ mav_outputs' = IF whole /\ fans_out(dropped, raised)
                           THEN fan_out(m, mav_outputs)
                           ELSE mav_outputs
        /\ ev' = [Ev("master_callback", l, m) EXCEPT
                     !.dropped = dropped,
                     !.raised = raised,
                     !.fanout = whole /\ fans_out(dropped, raised) /\ ~bad,
                     !.sent = IF done THEN handler_sent(m, l) ELSE <<>>,
                     !.said = h.said \o (IF done THEN handler_said(m, l, h.masters)
                                         ELSE <<>>)]
        /\ obs' = [obs EXCEPT
                     !.bad = @ + (IF bad THEN 1 ELSE 0),
                     !.delayed = @ + (IF dropped THEN 1 ELSE 0),
                     !.bad_or_delayed = @ + (IF bad \/ dropped THEN 1 ELSE 0),
                     !.raised = @ + (IF raised THEN 1 ELSE 0),
                     !.hb = IF m.type = "HEARTBEAT" THEN m ELSE @,
                     !.reqs = IF m.type = "WAYPOINT_REQUEST"
                              THEN Append(@, [seq |-> m.seq, link |-> l,
                                              at |-> now, dropped |-> dropped,
                                              sent |-> IF done
                                                       THEN handler_sent(m, l)
                                                       ELSE <<>>])
                              ELSE @]
        /\ main_pc' = IF raised THEN "dead"
                      ELSE IF done /\ ~whole THEN "mirror_test"
                      ELSE main_pc

master_callback(m, l) == master_callback_to(m, l, TRUE)

(***************************************************************************)
(* process_master(m): one recv() on link l.  The bytes read decode to the  *)
(* messages `chunk`; parse_buffer calls master_callback for each of them,  *)
(* then process_master counts the BAD_DATA ones.                           *)
(***************************************************************************)
\* a process_master that parses in setup mode too
passes_never == FALSE

\* `if mpstate.status.setup_mode: sys.stdout.write(str(s)) ... return`
passes_through == setup_mode

process_master(l, chunk) ==
    /\ main_pc = "loop"
    /\ obs.work + (IF chunk = <<>> THEN 1 ELSE Len(chunk)) <= MaxMsgs
    /\ logqueue_raw' = Append(logqueue_raw, chunk)
    /\ IF passes_through
       THEN UNCHANGED parseVars
       ELSE /\ main_pc' = "parse"
            /\ parse_link' = l
            /\ parse_buf' = chunk
            /\ parse_msgs' = chunk
    /\ ev' = Ev("process_master", l, NoMsg)
    /\ obs' = [obs EXCEPT !.work = @ + (IF chunk = <<>> THEN 1 ELSE Len(chunk))]
    /\ UNCHANGED <<settingsVars, mav_master, mav_outputs, mav_param, logqueue,
                   logfile, logfile_raw, lw_pc, statusVars, now>>

\* parse_buffer delivers the next message of the chunk to the callback
parse_buffer_callback ==
    /\ main_pc = "parse"
    /\ parse_buf # <<>>
    /\ ~starts_param_set(Head(parse_buf), parse_link)
    /\ master_callback(Head(parse_buf), parse_link)
    /\ parse_buf' = Tail(parse_buf)
    /\ UNCHANGED <<settingsVars, logqueue_raw, logfile, logfile_raw, lw_pc,
                   mav_error, setup_mode, parse_link, parse_msgs, now>>

(***************************************************************************)
(* The callback line by line around the status mirror, for the journal     *)
(* thread that reads the mirror meanwhile.  main_pc is then                *)
(*   "mirror_test"   before `if not m.get_type() in ...msg_count`          *)
(*   "mirror_count"  before `...msg_count[m.get_type()] += 1`              *)
(* and the message stays at the head of parse_buf until the callback       *)
(* returns.                                                                *)
(***************************************************************************)
\* the callback up to and including `mpstate.status.msgs[m.get_type()] = m`
callback_store ==
    /\ main_pc = "parse"
    /\ parse_buf # <<>>
    /\ ~starts_param_set(Head(parse_buf), parse_link)
    /\ master_callback_to(Head(parse_buf), parse_link, FALSE)
    /\ parse_buf' = IF main_pc' = "mirror_test" THEN parse_buf ELSE Tail(parse_buf)
    /\ UNCHANGED <<settingsVars, logqueue_raw, logfile, logfile_raw, lw_pc,
                   mav_error, setup_mode, parse_link, parse_msgs, now>>

\* `if not m.get_type() in msg_count: msg_count[m.get_type()] = 0`
mirror_init ==
    /\ main_pc = "mirror_test"
    /\ msg_count' = IF Head(parse_buf).type \in DOMAIN msg_count THEN msg_count
                    ELSE Put(msg_count, Head(parse_buf).type, 0)
    /\ main_pc' = "mirror_count"
    /\ UNCHANGED <<settingsVars, mav_master, mav_outputs, mav_param, journalVars,
                   MasterIn, mav_error, highest_usec, hbVars, msgs, wpVars,
                   battery_level, setup_mode, parse_link, parse_buf, parse_msgs,
                   now, ev, obs>>

\* `msg_count[m.get_type()] += 1`, the fan-out, and the return to parse_buffer
mirror_count ==
    /\ main_pc = "mirror_count"
    /\ msg_count' = Put(msg_count, Head(parse_buf).type,
                        msg_count[Head(parse_buf).type] + 1)
    /\ mav_outputs' = fan_out(Head(parse_buf), mav_outputs)
    /\ ev' = [ev EXCEPT !.fanout = Head(parse_buf).type # "BAD_DATA"]
    /\ parse_buf' = Tail(parse_buf)
    /\ main_pc' = "parse"
    /\ UNCHANGED <<settingsVars, mav_master, mav_param, journalVars, MasterIn,
                   mav_error, highest_usec, hbVars, msgs, wpVars, battery_level,
                   setup_mode, parse_link, parse_msgs, now, obs>>

\* the number of BAD_DATA messages of a chunk
RECURSIVE bad_data_count(_)
bad_data_count(ms) ==
    IF ms = <<>> THEN 0
    ELSE (IF Head(ms).type = "BAD_DATA" THEN 1 ELSE 0) + bad_data_count(Tail(ms))

\* `for msg in msgs: ... mav_error += 1`, and back to the main loop
process_master_end ==
    /\ main_pc = "parse"
    /\ parse_buf = <<>>
    /\ mav_error' = mav_error + bad_data_count(parse_msgs)
    /\ main_pc' = "loop"
    /\ parse_link' = 0
    /\ parse_msgs' = <<>>
    /\ UNCHANGED <<settingsVars, mav_master, mav_outputs, mav_param, journalVars,
                   MasterIn, highest_usec, hbVars, mirrorVars, wpVars,
                   battery_level, setup_mode, parse_buf, now, ev, obs>>

(***************************************************************************)
(* log_writer(): the journal thread.  lw_pc is its position:               *)
(*   "get_raw"      blocked in logqueue_raw.get()                          *)
(*   "drain_raw"    `while not logqueue_raw.empty()`                       *)
(*   "drain_parsed" `while not logqueue.empty()`, then flush and loop      *)
(***************************************************************************)
log_writer_get_raw ==
    /\ lw_pc = "get_raw"
    /\ logqueue_raw # <<>>
    /\ logfile_raw' = Append(logfile_raw, Head(logqueue_raw))
    /\ logqueue_raw' = Tail(logqueue_raw)
    /\ lw_pc' = "drain_raw"
    /\ UNCHANGED <<logqueue, logfile>>

log_writer_drain_raw ==
    /\ lw_pc = "drain_raw"
    /\ IF logqueue_raw # <<>>
       THEN /\ logfile_raw' = Append(logfile_raw, Head(logqueue_raw))
            /\ logqueue_raw' = Tail(logqueue_raw)
            /\ lw_pc' = lw_pc
       ELSE /\ lw_pc' = "drain_parsed"
            /\ UNCHANGED <<logqueue_raw, logfile_raw>>
    /\ UNCHANGED <<logqueue, logfile>>

log_writer_drain_parsed ==
    /\ lw_pc = "drain_parsed"
    /\ IF logqueue # <<>>
       THEN /\ logfile' = Append(logfile, Head(logqueue))
            /\ logqueue' = Tail(logqueue)
            /\ lw_pc' = lw_pc
       ELSE /\ lw_pc' = "get_raw"
            /\ UNCHANGED <<logqueue, logfile>>
    /\ UNCHANGED <<logqueue_raw, logfile_raw>>

log_writer ==
    /\ \/ log_writer_get_raw
       \/ log_writer_drain_raw
       \/ log_writer_drain_parsed
    /\ UNCHANGED <<settingsVars, mav_master, mav_outputs, mav_param,
                   statusVars, parseVars, now, ev, obs>>

\* MPStatus.show: `for m in sorted(self.msgs.keys()): ... self.msg_count[m]`
\* raises KeyError for a type the count map has no entry for
show_raises == \E t \in DOMAIN msgs : t \notin DOMAIN msg_count

\* the end of a log_writer round in which status_period.trigger() is true:
\* `mpstate.status.write()`.  A KeyError leaves log_writer: the thread ends
\* (lw_pc "dead").
log_writer_status_write ==
    /\ lw_pc = "drain_parsed"
    /\ logqueue = <<>>
    /\ lw_pc' = IF show_raises THEN "dead" ELSE "get_raw"
    /\ ev' = [Ev("status_write", 0, NoMsg) EXCEPT !.raised = show_raises]
    /\ UNCHANGED <<settingsVars, mav_master, mav_outputs, mav_param, logqueue,
                   logqueue_raw, logfile, logfile_raw, statusVars, parseVars,
                   now, obs>>

(***************************************************************************)
(* periodic_tasks(): the heartbeat check of the engine loop.               *)
(***************************************************************************)
HeartbeatTimeout == 5

link_down(link) == ~link.linkerror /\ now > link.last_heartbeat + HeartbeatTimeout

no_heartbeat == last_heartbeat # 0 /\ now > last_heartbeat + HeartbeatTimeout

RECURSIVE links_down_said(_)
links_down_said(i) ==
    IF i > Len(mav_master) THEN <<>>
    ELSE (IF link_down(mav_master[i]) THEN <<[text |-> "link down", link |-> i]>>
          ELSE <<>>) \o links_down_said(i + 1)

check_link_status ==
    /\ heartbeat_error' = IF no_heartbeat THEN TRUE ELSE heartbeat_error
    /\ mav_master' = [i \in Links |->
                        IF link_down(mav_master[i])
                        THEN [mav_master[i] EXCEPT !.linkerror = TRUE]
                        ELSE mav_master[i]]
    /\ ev' = [Ev("check_link_status", 0, NoMsg) EXCEPT
                 !.said = (IF no_heartbeat
                           THEN <<[text |-> "no heartbeat", link |-> 0]>> ELSE <<>>)
                          \o links_down_said(1)]

\* one pass of periodic_tasks in which the heartbeat check is due
periodic_tasks ==
    /\ main_pc = "loop"
    /\ ~(setup_mode \/ target_system = -1 \/ target_component = -1)
    /\ check_link_status
    /\ UNCHANGED <<settingsVars, mav_outputs, mav_param, journalVars, MasterIn,
                   mav_error, highest_usec, target_system, target_component,
                   last_heartbeat, mirrorVars, wpVars, battery_level,
                   setup_mode, parseVars, now, obs>>

(***************************************************************************)
(* param_set(name, value, retries=3), a blocking exchange on the engine    *)
(* thread.  ps.pc is its position: "send" at the head of the retry loop,   *)
(* "poll" inside the 1 s window.  recv_match reads the current master and  *)
(* every message it reads passes through master_callback first.            *)
(***************************************************************************)
ParamRetries == 3

\* time.sleep(0.1) calls that fill the window `time.time() - tstart < 1`
PollsPerWindow == 10

param_set_enter(name, origin, m, l) ==
    [NoPs EXCEPT !.pc = "send", !.name = name, !.retries = ParamRetries,
                 !.origin = origin, !.m = m, !.link = l]

\* an exchange that takes any PARAM_VALUE for the acknowledgement
ack_any(name, m) == m.type = "PARAM_VALUE"

\* `str(name) == str(ack.param_id)` for what recv_match(type='PARAM_VALUE') returns
ack_matches(name, m) == m.type = "PARAM_VALUE" /\ m.param_id = name

\* `param set <name> <value>` (cmd_param): the exchange starts from a command
cmd_param_set(name) ==
    /\ main_pc = "loop"
    /\ ~setup_mode
    /\ ps' = param_set_enter(name, "command", NoMsg, 0)
    /\ main_pc' = "param_set"
    /\ ev' = Ev("cmd_param_set", 0, NoMsg)
    /\ UNCHANGED <<settings_link, settings_numcells, settings_radiosetup, paramRest,
                   mav_master, mav_outputs, mav_param, journalVars, statusVars,
                   parse_link, parse_buf, parse_msgs, now, obs>>

\* the RC_CHANNELS_RAW handler calls param_set: master_callback up to the call
parse_buffer_callback_radiosetup ==
    LET m == Head(parse_buf)
        l == parse_link
    IN  /\ main_pc = "parse"
        /\ parse_buf # <<>>
        /\ starts_param_set(m, l)
        /\ MasterIn' = [MasterIn EXCEPT ![l] = @ + 1]
        /\ logqueue' = Append(logqueue, log_record(m, l))
        /\ parse_buf' = Tail(parse_buf)
        /\ ps' = param_set_enter(IF get_mav_param("RC1_MIN", 0) > m.x
                                 THEN "RC1_MIN" ELSE "RC1_MAX",
                                 "callback", m, l)
        /\ main_pc' = "param_set"
        /\ ev' = Ev("master_callback", l, m)
        /\ UNCHANGED <<settings_link, settings_numcells, settings_radiosetup, paramRest,
                       mav_master, mav_outputs, mav_param, logqueue_raw, logfile,
                       logfile_raw, lw_pc, mav_error, highest_usec, hbVars,
                       mirrorVars, wpVars, battery_level, setup_mode,
                       parse_link, parse_msgs, now, obs>>

\* `while retries > 0 and not got_ack`: send PARAM_SET to master().  An
\* IndexError from master() ends a command (process_stdin catches it) and
\* unwinds the engine when the call came from the callback.
param_set_send ==
    LET k == master
    IN  /\ main_pc = "param_set"
        /\ ps.pc = "send"
        /\ ps.retries > 0 /\ ~ps.got_ack
        /\ settings_link' = master_link(settings_link, mav_master)
        /\ IF k = 0
           THEN /\ ps' = NoPs
                /\ main_pc' = IF ps.origin = "command" THEN "loop" ELSE "dead"
                /\ ev' = [Ev("param_set", 0, NoMsg) EXCEPT !.raised = TRUE]
           ELSE /\ ps' = [ps EXCEPT !.retries = @ - 1, !.sends = @ + 1,
                                    !.slept = 0, !.pc = "poll"]
                /\ main_pc' = main_pc
                /\ ev' = [Ev("param_set_send", k, NoMsg) EXCEPT
                             !.sent = <<Sent(k, [Msg("PARAM_SET") EXCEPT
                                                   !.param_id = ps.name])>>]
        /\ UNCHANGED <<settings_numcells, settings_radiosetup, paramRest, mav_master,
                       mav_outputs, mav_param, journalVars, statusVars,
                       parse_link, parse_buf, parse_msgs, now, obs>>

\* recv_match returns None: time.sleep(0.1)
param_set_poll_none ==
    /\ main_pc = "param_set"
    /\ ps.pc = "poll"
    /\ ps.slept < PollsPerWindow
    /\ ps' = [ps EXCEPT !.slept = @ + 1]
    /\ UNCHANGED <<settings_link, settings_numcells, settings_radiosetup, paramRest,
                   mav_master, mav_outputs, mav_param, journalVars, statusVars,
                   main_pc, parse_link, parse_buf, parse_msgs, now, ev, obs>>

\* `while time.time() - tstart < 1` fails: back to the retry loop
param_set_window_end ==
    /\ main_pc = "param_set"
    /\ ps.pc = "poll"
    /\ ps.slept >= PollsPerWindow
    /\ ps' = [ps EXCEPT !.pc = "send"]
    /\ UNCHANGED <<settings_link, settings_numcells, settings_radiosetup, paramRest,
                   mav_master, mav_outputs, mav_param, journalVars, statusVars,
                   main_pc, parse_link, parse_buf, parse_msgs, now, ev, obs>>

\* recv_match reads message m from the master: the callback runs on it, and
\* a PARAM_VALUE is returned to param_set
param_set_poll_msg(m) ==
    /\ main_pc = "param_set"
    /\ ps.pc = "poll"
    /\ ps.slept < PollsPerWindow
    /\ master # 0
    /\ SumSeq(MasterIn) < MaxMsgs
    /\ ~starts_param_set(m, master)
    /\ master_callback(m, master)
    /\ ps' = IF m.type # "PARAM_VALUE" THEN ps
             ELSE IF ack_matches(ps.name, m)
             THEN [ps EXCEPT !.got_ack = TRUE, !.pc = "send",
                             !.seen = @ \cup {m.param_id}]
             ELSE [ps EXCEPT !.seen = @ \cup {m.param_id}]
    /\ UNCHANGED <<settings_link, settings_numcells, settings_radiosetup, paramRest,
                   logqueue_raw, logfile, logfile_raw, lw_pc, mav_error,
                   setup_mode, parse_link, parse_buf, parse_msgs, now>>

\* the retry loop is over: param_set returns got_ack.  Returning to the
\* RC_CHANNELS_RAW handler, RC1_MAX is looked at next, and then the callback
\* goes on to the status mirror and the outputs.
param_set_return ==
    LET again == /\ ps.origin = "callback"
                 /\ ps.name = "RC1_MIN"
                 /\ get_mav_param("RC1_MAX", 0) < ps.m.x
        tail  == ps.origin = "callback" /\ ~again
    IN  /\ main_pc = "param_set"
        /\ ps.pc = "send"
        /\ (ps.retries = 0 \/ ps.got_ack)
        /\ ps' = IF again
                 THEN param_set_enter("RC1_MAX", "callback", ps.m, ps.link)
                 ELSE NoPs
        /\ main_pc' = IF again THEN main_pc
                      ELSE IF tail THEN "parse" ELSE "loop"
        /\ msgs' = IF tail THEN Put(msgs, ps.m.type, ps.m) ELSE msgs
        /\ msg_count' = IF tail
                        THEN Put(msg_count, ps.m.type,
                                 IF ps.m.type \in DOMAIN msg_count
                                 THEN msg_count[ps.m.type] + 1 ELSE 1)
                        ELSE msg_count
        /\ mav_outputs' = IF tail THEN fan_out(ps.m, mav_outputs) ELSE mav_outputs
        /\ ev' = [Ev("param_set", 0, NoMsg) EXCEPT
                     !.ret = ps.got_ack,
                     !.arg = [name |-> ps.name, sends |-> ps.sends,
                              seen |-> ps.seen, origin |-> ps.origin],
                     !.fanout = tail]
        /\ UNCHANGED <<settings_link, settings_numcells, settings_radiosetup, paramRest,
                       mav_master, mav_param, journalVars, MasterIn, mav_error,
                       highest_usec, hbVars, wpVars, battery_level, setup_mode,
                       parse_link, parse_buf, parse_msgs, now, obs>>

param_set ==
    \/ param_set_send
    \/ param_set_poll_none
    \/ param_set_window_end
    \/ param_set_return

\* the wall clock advances
Tick ==
    /\ main_pc = "loop"
    /\ now + TickStep <= StartTime + MaxTime
    /\ now' = now + TickStep
    /\ UNCHANGED <<settingsVars, mav_master, mav_outputs, mav_param, journalVars,
                   statusVars, parseVars, ev, obs>>

\* what one recv() decodes to: one message of S
OneMsg(S) == {<<m>> : m \in S}

(***************************************************************************)
(* Operator commands.                                                      *)
(***************************************************************************)
\* `set link <n>`: cmd_set -> MPSettings.set('link', n)
cmd_set_link(n) ==
    /\ main_pc = "loop"
    /\ ~setup_mode
    /\ settings_link' = n
    /\ ev' = [Ev("cmd_set", 0, NoMsg) EXCEPT !.arg = n]
    /\ UNCHANGED <<restVars, mav_master, mav_outputs, mav_param,
                   journalVars, statusVars, parseVars, now, obs>>

\* `reset`: cmd_reset calls mpstate.master().reset(); an IndexError from
\* master() is caught by process_stdin
cmd_reset ==
    /\ main_pc = "loop"
    /\ ~setup_mode
    /\ settings_link' = master_link(settings_link, mav_master)
    /\ ev' = [Ev("cmd_reset", 0, NoMsg) EXCEPT !.ret = master,
                                               !.arg = settings_link,
                                               !.raised = (master = 0)]
    /\ UNCHANGED <<restVars, mav_master, mav_outputs, mav_param,
                   journalVars, statusVars, parseVars, now, obs>>

\* `setup`: cmd_setup enters setup mode
cmd_setup ==
    /\ main_pc = "loop"
    /\ ~setup_mode
    /\ setup_mode' = TRUE
    /\ ev' = Ev("cmd_setup", 0, NoMsg)
    /\ UNCHANGED <<settingsVars, mav_master, mav_outputs, mav_param, journalVars,
                   MasterIn, mav_error, highest_usec, hbVars, mirrorVars, wpVars,
                   battery_level, parseVars, now, obs>>

\* process_stdin in setup mode, line '.': leave setup mode
setup_exit ==
    /\ main_pc = "loop"
    /\ setup_mode
    /\ setup_mode' = FALSE
    /\ ev' = Ev("setup_exit", 0, NoMsg)
    /\ UNCHANGED <<settingsVars, mav_master, mav_outputs, mav_param, journalVars,
                   MasterIn, mav_error, highest_usec, hbVars, mirrorVars, wpVars,
                   battery_level, parseVars, now, obs>>

(***************************************************************************)
(* The operator mailbox rl.line: input_loop fills it, main_loop empties    *)
(* it.  Lines are numbered in the order they are typed.                    *)
(***************************************************************************)
\* variant: an input thread that does not wait for the mailbox
mailbox_free_always == TRUE

\* `while rl.line is not None: time.sleep(0.01)` is left
mailbox_free == rl_line = NoLine

\* input_loop leaves its wait loop and calls raw_input
input_wait ==
    /\ in_pc = "wait"
    /\ mailbox_free
    /\ in_pc' = "read"
    /\ ev' = Ev("input_wait", 0, NoMsg)
    /\ UNCHANGED <<settings_link, settings_numcells, settings_radiosetup,
                   settings_mavfwd, rcVars, ps, Slave, status_exit, rl_line, in_line,
                   mav_master, mav_outputs, mav_param, journalVars,
                   statusVars, parseVars, now, obs>>

\* raw_input returns the next line the operator typed
input_read ==
    /\ in_pc = "read"
    /\ Len(obs.placed) < MaxLines
    /\ in_line' = Len(obs.placed) + 1
    /\ in_pc' = "put"
    /\ ev' = Ev("input_read", 0, NoMsg)
    /\ UNCHANGED <<settings_link, settings_numcells, settings_radiosetup,
                   settings_mavfwd, rcVars, ps, Slave, status_exit, rl_line,
                   mav_master, mav_outputs, mav_param, journalVars,
                   statusVars, parseVars, now, obs>>

\* raw_input raises EOFError: status.exit is set and the thread ends
input_eof ==
    /\ in_pc = "read"
    /\ status_exit' = TRUE
    /\ in_pc' = "done"
    /\ ev' = Ev("input_eof", 0, NoMsg)
    /\ UNCHANGED <<settings_link, settings_numcells, settings_radiosetup,
                   settings_mavfwd, rcVars, ps, Slave, rl_line, in_line,
                   mav_master, mav_outputs, mav_param, journalVars,
                   statusVars, parseVars, now, obs>>

\* `rl.line = line`
input_put ==
    /\ in_pc = "put"
    /\ rl_line' = in_line
    /\ in_pc' = "wait"
    /\ ev' = [Ev("input_put", 0, NoMsg) EXCEPT !.arg = in_line]
    /\ obs' = [obs EXCEPT !.placed = Append(@, in_line)]
    /\ UNCHANGED <<settings_link, settings_numcells, settings_radiosetup,
                   settings_mavfwd, rcVars, ps, Slave, status_exit, in_line,
                   mav_master, mav_outputs, mav_param, journalVars,
                   statusVars, parseVars, now>>

input_loop == input_wait \/ input_read \/ input_eof \/ input_put

\* main_loop, top of an iteration: return on status.exit, else look at the
\* mailbox
stdin_check ==
    /\ main_pc = "loop"
    /\ status_exit \/ rl_line # NoLine
    /\ main_pc' = IF status_exit THEN "exited" ELSE "stdin"
    /\ ev' = Ev("stdin_check", 0, NoMsg)
    /\ UNCHANGED <<settingsVars, mav_master, mav_outputs, mav_param, journalVars,
                   statusVars, parse_link, parse_buf, parse_msgs, now, obs>>

\* `process_stdin(rl, rl.line)`; what the command does is left out
stdin_handle ==
    /\ main_pc = "stdin"
    /\ main_pc' = "clear"
    /\ ev' = [Ev("process_stdin", 0, NoMsg) EXCEPT !.arg = rl_line]
    /\ obs' = [obs EXCEPT !.handled = Append(@, rl_line)]
    /\ UNCHANGED <<settingsVars, mav_master, mav_outputs, mav_param, journalVars,
                   statusVars, parse_link, parse_buf, parse_msgs, now>>

\* `rl.line = None`
stdin_clear ==
    /\ main_pc = "clear"
    /\ rl_line' = NoLine
    /\ main_pc' = "loop"
    /\ ev' = Ev("stdin_clear", 0, NoMsg)
    /\ UNCHANGED <<settings_link, settings_numcells, settings_radiosetup,
                   settings_mavfwd, rcVars, ps, Slave, status_exit, in_pc, in_line,
                   mav_master, mav_outputs, mav_param, journalVars,
                   statusVars, parse_link, parse_buf, parse_msgs, now, obs>>

main_loop_stdin == stdin_check \/ stdin_handle \/ stdin_clear

(***************************************************************************)
(* process_mavlink: a frame from a MAVLink slave on an output link.        *)
(***************************************************************************)
\* the frame a slave sends
SlaveFrame == Msg("COMMAND_LONG")

\* variant: forwarding that ignores setup mode
forwards_in_setup == settings_mavfwd # 0

\* `mpstate.settings.mavfwd and not mpstate.status.setup_mode`
forwards == settings_mavfwd # 0 /\ ~setup_mode

\* process_mavlink(slave) for output o; decoded is whether
\* slave.mav.decode(buf) succeeds.  The IndexError of master() is not caught
\* in main_loop.
process_mavlink(o, decoded) ==
    LET fwd == decoded /\ forwards
        raised == fwd /\ master = 0
    IN  /\ main_pc = "loop"
        /\ o \in DOMAIN mav_outputs
        /\ Slave < MaxMsgs
        /\ settings_link' = IF fwd THEN master_link(settings_link, mav_master)
                                   ELSE settings_link
        /\ Slave' = IF decoded /\ ~raised THEN Slave + 1 ELSE Slave
        /\ main_pc' = IF raised THEN "dead" ELSE main_pc
        /\ ev' = [Ev("process_mavlink", o, SlaveFrame) EXCEPT
                     !.raised = raised,
                     !.arg = decoded,
                     !.sent = IF fwd /\ ~raised
                                THEN <<Sent(master, SlaveFrame)>> ELSE <<>>]
        /\ UNCHANGED <<settings_numcells, settings_radiosetup, settings_mavfwd, rcVars,
                       ps, status_exit, rl_line, in_pc, in_line,
                       mav_master, mav_outputs, mav_param, journalVars,
                       statusVars, parse_link, parse_buf, parse_msgs, now, obs>>

(***************************************************************************)
(* RC override: send_rc_override, the `rc` and `switch` commands.          *)
(***************************************************************************)
\* the link field of a frame written to the SITL output
SitlLink == -1

\* struct format 'H': an unsigned 16-bit value
IsUint16(v) == 0 <= v /\ v <= 65535

\* struct format 'B': an unsigned 8-bit value
IsUint8(v) == 0 <= v /\ v <= 255

RcOverride(override) == [Msg("RC_CHANNELS_OVERRIDE") EXCEPT !.x = override]

\* variant: an override that goes to the master even with a SITL output
send_rc_override_master(override) ==
    LET k == master
        bad == \/ \E i \in DOMAIN override : ~IsUint16(override[i])
               \/ ~IsUint8(target_system) \/ ~IsUint8(target_component)
    IN  [raised |-> k = 0 \/ bad,
         sent |-> IF k = 0 \/ bad THEN <<>> ELSE <<Sent(k, RcOverride(override))>>,
         to_master |-> TRUE]

\* send_rc_override() with status.override = override: whether it raises
\* (struct.error of pack, IndexError of master()), the frame it writes, and
\* whether it called master()
send_rc_override(override) ==
    LET k == master
        bad16 == \E i \in DOMAIN override : ~IsUint16(override[i])
        bad == bad16 \/ ~IsUint8(target_system) \/ ~IsUint8(target_component)
    IN  IF sitl_output
        THEN [raised |-> bad16,
              sent |-> IF bad16 THEN <<>>
                       ELSE <<Sent(SitlLink, RcOverride(override))>>,
              to_master |-> FALSE]
        ELSE [raised |-> k = 0 \/ bad,
              sent |-> IF k = 0 \/ bad THEN <<>>
                       ELSE <<Sent(k, RcOverride(override))>>,
              to_master |-> TRUE]

\* `rc <channel> <value>`; an exception of send_rc_override is caught by
\* process_stdin
cmd_rc(channel, value) ==
    LET v == IF value = -1 THEN 65535 ELSE value
        rejected == channel < 1 \/ channel > 8
        override == IF rejected THEN status_override
                    ELSE [status_override EXCEPT ![channel] = v]
        r == send_rc_override(override)
    IN  /\ main_pc = "loop"
        /\ ~setup_mode
        /\ status_override' = override
        /\ settings_link' = IF ~rejected /\ r.to_master
                             THEN master_link(settings_link, mav_master)
                             ELSE settings_link
        /\ ev' = [Ev("cmd_rc", 0, NoMsg) EXCEPT
                     !.arg = <<channel, value>>,
                     !.ret = ~rejected,
                     !.raised = ~rejected /\ r.raised,
                     !.sent = IF rejected THEN <<>> ELSE r.sent]
        /\ UNCHANGED <<settings_numcells, settings_radiosetup, settings_mavfwd,
                       ps, Slave, status_exit, rl_line, in_pc, in_line,
                       MasterOut, sitl_output, last_battery_announce,
                       mav_master, mav_outputs, mav_param, journalVars,
                       statusVars, parseVars, now, obs>>

\* `mapping` of cmd_switch
SwitchMapping == <<0, 1165, 1295, 1425, 1555, 1685, 1815>>

\* Python's override[i] = x on the list of eight: the 1-based position
\* written, or 0 for an IndexError
PyStore8(i) == IF 0 <= i /\ i < 8 THEN i + 1
               ELSE IF -8 <= i /\ i < 0 THEN 8 + i + 1
               ELSE 0

\* `switch <value>` (without --quadcopter the default channel is 8)
cmd_switch(value) ==
    LET rejected == value < 0 \/ value > 6
        pos == PyStore8(get_mav_param("FLTMODE_CH", 8) - 1)
        stored == ~rejected /\ pos # 0
        override == IF stored
                    THEN [status_override EXCEPT ![pos] = SwitchMapping[value + 1]]
                    ELSE status_override
        r == send_rc_override(override)
    IN  /\ main_pc = "loop"
        /\ ~setup_mode
        /\ status_override' = override
        /\ settings_link' = IF stored /\ r.to_master
                             THEN master_link(settings_link, mav_master)
                             ELSE settings_link
        /\ ev' = [Ev("cmd_switch", 0, NoMsg) EXCEPT
                     !.arg = <<value>>,
                     !.ret = ~rejected,
                     !.raised = ~rejected /\ (pos = 0 \/ r.raised),
                     !.sent = IF stored THEN r.sent ELSE <<>>]
        /\ UNCHANGED <<settings_numcells, settings_radiosetup, settings_mavfwd,
                       ps, Slave, status_exit, rl_line, in_pc, in_line,
                       MasterOut, sitl_output, last_battery_announce,
                       mav_master, mav_outputs, mav_param, journalVars,
                       statusVars, parseVars, now, obs>>

(***************************************************************************)
(* periodic_tasks(), a whole pass.  `due` is the set of periodic events    *)
(* whose trigger() fires in this pass ("fetch" stands for the links whose  *)
(* parameter fetch is to be repeated).                                     *)
(***************************************************************************)
PeriodicEvents == {"heartbeat", "check", "msg", "fetch", "battery", "override"}

\* variant: a scheduler that is skipped in setup mode only
pass_skipped_setup_only == setup_mode

\* the early return of periodic_tasks
pass_skipped ==
    setup_mode \/ target_system = -1 \/ target_component = -1

\* variant: an override trigger that sends the vector whatever it holds
override_due_always(due) == "override" \in due

\* `if override_period.trigger(): if mpstate.status.override != [ 0 ] * 8`
override_due(due) == "override" \in due /\ status_override # ZeroOverride

\* one frame f to every master link
ToEveryMaster(f) == [i \in 1..Len(mav_master) |-> Sent(i, f)]

\* int((battery_level+5)/10)*10
rbattery_level == ((battery_level + 5) \div 10) * 10

\* what battery_report says
battery_said ==
    (IF rbattery_level # last_battery_announce
     THEN <<[text |-> "Flight battery percent", link |-> 0]>> ELSE <<>>)
    \o (IF rbattery_level <= 20
        THEN <<[text |-> "Flight battery warning", link |-> 0]>> ELSE <<>>)

periodic_tasks_pass(due) ==
    LET run == ~pass_skipped
        hb  == run /\ "heartbeat" \in due
        chk == run /\ "check" \in due
        bat == run /\ "battery" \in due
        ovr == run /\ override_due(due)
        r   == send_rc_override(status_override)
    IN  /\ main_pc = "loop"
        /\ due \subseteq PeriodicEvents
        /\ hb => MasterOut < MaxMsgs
        /\ MasterOut' = IF hb THEN MasterOut + 1 ELSE MasterOut
        /\ heartbeat_error' = IF chk /\ no_heartbeat THEN TRUE ELSE heartbeat_error
        /\ mav_master' = IF chk
                          THEN [i \in Links |->
                                  IF link_down(mav_master[i])
                                  THEN [mav_master[i] EXCEPT !.linkerror = TRUE]
                                  ELSE mav_master[i]]
                          ELSE mav_master
        /\ last_battery_announce' = IF bat THEN rbattery_level
                                     ELSE last_battery_announce
        /\ settings_link' = IF ovr /\ r.to_master
                             THEN master_link(settings_link, mav_master)
                             ELSE settings_link
        /\ main_pc' = IF ovr /\ r.raised THEN "dead" ELSE main_pc
        /\ ev' = [Ev("periodic_tasks", 0, NoMsg) EXCEPT
                     !.arg = due,
                     !.ret = run,
                     !.raised = ovr /\ r.raised,
                     !.sent = (IF hb THEN ToEveryMaster(Msg("HEARTBEAT")) ELSE <<>>)
                              \o (IF run /\ "msg" \in due
                                  THEN ToEveryMaster(Msg("REQUEST_DATA_STREAM"))
                                  ELSE <<>>)
                              \o (IF run /\ "fetch" \in due
                                  THEN ToEveryMaster(Msg("PARAM_REQUEST_LIST"))
                                  ELSE <<>>)
                              \o (IF ovr THEN r.sent ELSE <<>>),
                     !.said = (IF chk
                               THEN (IF no_heartbeat
                                     THEN <<[text |-> "no heartbeat", link |-> 0]>>
                                     ELSE <<>>) \o links_down_said(1)
                               ELSE <<>>)
                              \o (IF bat THEN battery_said ELSE <<>>)]
        /\ UNCHANGED <<settings_numcells, settings_radiosetup, settings_mavfwd,
                       ps, Slave, status_exit, rl_line, in_pc, in_line,
                       status_override, sitl_output,
                       mav_outputs, mav_param, journalVars, MasterIn, mav_error,
                       highest_usec, target_system, target_component,
                       last_heartbeat, mirrorVars, wpVars, battery_level,
                       setup_mode, parse_link, parse_buf, parse_msgs, now, obs>>

(***************************************************************************)
(* Waypoint commands (cmd_wp).                                             *)
(***************************************************************************)
\* the waypoints MAVWPLoader.load reads from a file of n waypoints
FileWaypoint(i) == [Msg("WAYPOINT") EXCEPT !.seq = i, !.x = 1]

FileWaypoints(n) == [i \in 1..n |-> FileWaypoint(i - 1)]

\* `wp load <file>`: load_waypoints, for a file that parses to n waypoints.
\* An IndexError from master() leaves through process_stdin's try/except.
load_waypoints(n) ==
    LET k  == master
        up == k # 0 /\ n > 0
    IN  /\ main_pc = "loop"
        /\ ~setup_mode
        /\ wploader' = [wploader EXCEPT !.wpoints = FileWaypoints(n)]
        /\ settings_link' = master_link(settings_link, mav_master)
        /\ loading_waypoints' = IF up THEN TRUE ELSE loading_waypoints
        /\ loading_waypoint_lasttime' = IF up THEN now ELSE loading_waypoint_lasttime
        /\ ev' = [Ev("wp_load", 0, NoMsg) EXCEPT
                     !.arg = n,
                     !.raised = (k = 0),
                     !.sent = (IF k = 0 THEN <<>>
                               ELSE <<Sent(k, Msg("WAYPOINT_CLEAR_ALL"))>>)
                              \o (IF up
                                  THEN <<Sent(k, [Msg("WAYPOINT_COUNT")
                                                    EXCEPT !.count = n])>>
                                  ELSE <<>>)]
        /\ UNCHANGED <<restVars, mav_master, mav_outputs, mav_param,
                       journalVars, MasterIn, mav_error, highest_usec, hbVars,
                       mirrorVars, wp_op, battery_level, setup_mode, parseVars,
                       now>>
        /\ obs' = [obs EXCEPT !.load = [n |-> n, at |-> now, ok |-> k # 0],
                              !.reqs = <<>>]

\* `wp list` and `wp save <file>`: start a download op
cmd_wp_download(op) ==
    LET k == master
    IN  /\ main_pc = "loop"
        /\ ~setup_mode
        /\ wp_op' = op
        /\ settings_link' = master_link(settings_link, mav_master)
        /\ ev' = [Ev("wp_" \o op, 0, NoMsg) EXCEPT
                     !.raised = (k = 0),
                     !.sent = IF k = 0 THEN <<>>
                              ELSE <<Sent(k, Msg("WAYPOINT_REQUEST_LIST"))>>]
        /\ UNCHANGED <<restVars, mav_master, mav_outputs, mav_param,
                       journalVars, MasterIn, mav_error, highest_usec, hbVars,
                       mirrorVars, wploader, loading_waypoints,
                       loading_waypoint_lasttime, battery_level, setup_mode,
                       parseVars, now, obs>>

(***************************************************************************)
(* Master selection: the operator sets the preferred link and commands     *)
(* call master(), under every combination of link health.                  *)
(***************************************************************************)
\* the link set with the given health flags
WithErrors(errs) == [i \in DOMAIN errs |-> [NewLink EXCEPT !.linkerror = errs[i]]]

InitMaster ==
    \E n \in 1..MaxLinks :
        /\ settings_link = 1
        /\ settings_numcells = 0
        /\ settings_radiosetup = FALSE
        /\ settings_mavfwd = 1
        /\ sitl_output = FALSE
        /\ QuietStart
        /\ mav_master \in {WithErrors(errs) : errs \in [1..n -> BOOLEAN]}
        /\ mav_outputs = <<>>
        /\ mav_param = EmptyMap
        /\ logqueue = <<>> /\ logqueue_raw = <<>>
        /\ logfile = <<>> /\ logfile_raw = <<>>
        /\ MasterIn = [i \in 1..n |-> 0]
        /\ mav_error = 0
        /\ highest_usec = 0
        /\ target_system = -1 /\ target_component = -1
        /\ heartbeat_error = FALSE
        /\ last_heartbeat = 0
        /\ msgs = EmptyMap /\ msg_count = EmptyMap
        /\ wp_op = "None"
        /\ wploader = [wpoints |-> <<>>, expected_count |-> 0]
        /\ loading_waypoints = FALSE
        /\ loading_waypoint_lasttime = StartTime
        /\ battery_level = -1
        /\ setup_mode = FALSE
        /\ main_pc = "loop"
        /\ parse_link = 0 /\ parse_buf = <<>> /\ parse_msgs = <<>>
        /\ lw_pc = "get_raw"
        /\ now = StartTime
        /\ ev = Ev("init", 0, NoMsg)
        /\ obs = NoObs

SetLink == \E n \in (0 - MaxLinkArg)..MaxLinkArg : cmd_set_link(n)

Reset == cmd_reset

NextMaster == SetLink \/ Reset

SpecMaster == InitMaster /\ [][NextMaster]_vars

(***************************************************************************)
(* The link-delay state machine: usec-carrying telemetry (ATTITUDE) on     *)
(* several links, with heartbeats between.                                 *)
(***************************************************************************)
\* timestamps around the three windows: 1 s behind, 0.5 s behind, 60 s behind
UsecValues == {1000000, 1500001, 2000000, 2000001, 62000001}

Attitude(u) == [Msg("ATTITUDE") EXCEPT !.usec = u]

Heartbeat(sys, comp) == [Msg("HEARTBEAT") EXCEPT !.srcSystem = sys,
                                                  !.srcComponent = comp]

DelayMsgs == {Attitude(u) : u \in UsecValues} \cup {Heartbeat(1, 1)}

InitDelay == \E n \in 1..MaxLinks : StartState(n, 1, 0, FALSE)

RecvDelay == \E l \in Links, chunk \in OneMsg(DelayMsgs) :
                 process_master(l, chunk)

NextDelay == RecvDelay \/ parse_buffer_callback \/ process_master_end

SpecDelay == InitDelay /\ [][NextDelay]_vars

(***************************************************************************)
(* Dispatch on a delayed link: every handler that owns state, behind a     *)
(* link that lags (ATTITUDE 1,000,000 after another link's 2,000,001).     *)
(***************************************************************************)
ParamValue(id, v) == [Msg("PARAM_VALUE") EXCEPT !.param_id = id, !.param_value = v]

WaypointCount(n) == [Msg("WAYPOINT_COUNT") EXCEPT !.count = n]

\* a waypoint the vehicle sends in a download
Waypoint(i) == [Msg("WAYPOINT") EXCEPT !.seq = i, !.x = 2]

WaypointRequest(i) == [Msg("WAYPOINT_REQUEST") EXCEPT !.seq = i]

\* the usec stream that makes a link lag, and lets it catch up
LagMsgs == {Attitude(2000001), Attitude(1000000)}

\* one message for every handler that owns state
DropMsgs == {Heartbeat(1, 1), ParamValue("RC1_MIN", 1000), WaypointCount(2),
             Waypoint(0), WaypointRequest(0)}

InitDrop == \E n \in 1..MaxLinks : StartState(n, MaxOutputs, 0, FALSE)

\* the handler messages are sent on links that are lagging
RecvDrop ==
    \E l \in Links :
        \E chunk \in OneMsg(IF mav_master[l].link_delayed
                            THEN LagMsgs \cup DropMsgs ELSE LagMsgs) :
            process_master(l, chunk)

WpLoadDrop == load_waypoints(MaxWp)

WpListDrop == cmd_wp_download("list")

NextDrop == RecvDrop \/ parse_buffer_callback \/ process_master_end
               \/ WpLoadDrop \/ WpListDrop

SpecDrop == InitDrop /\ [][NextDrop]_vars

(***************************************************************************)
(* Counting what reaches the outputs: lagging links, bad data, and the     *)
(* SYS_STATUS handler with and without battery cells configured.           *)
(***************************************************************************)
CountMsgs == {Attitude(2000001), Attitude(1000000), Msg("BAD_DATA"),
              Msg("AP_ADC"), Msg("SYS_STATUS")}

InitCount == \E n \in 1..MaxLinks, cells \in {0, 3} :
                 StartState(n, MaxOutputs, cells, FALSE)

RecvCount == \E l \in Links, chunk \in OneMsg(CountMsgs) : process_master(l, chunk)

NextCount == RecvCount \/ parse_buffer_callback \/ process_master_end

SpecCount == InitCount /\ [][NextCount]_vars

(***************************************************************************)
(* The journal: the engine thread receives, the journal thread writes.     *)
(* Both threads are scheduled fairly; what arrives on the links is up to   *)
(* the vehicle, so there is no fairness on the receives.                   *)
(***************************************************************************)
\* what a recv() decodes to: nothing yet, or one heartbeat
LogChunks == {<<>>} \cup OneMsg({Heartbeat(1, 1)})

InitLog == \E n \in 1..MaxLinks : StartState(n, MaxOutputs, 0, FALSE)

RecvLog == \E l \in Links, chunk \in LogChunks : process_master(l, chunk)

NextLog == RecvLog \/ parse_buffer_callback \/ process_master_end \/ log_writer

SpecLog ==
    /\ InitLog
    /\ [][NextLog]_vars
    /\ WF_vars(parse_buffer_callback)
    /\ WF_vars(process_master_end)
    /\ WF_vars(log_writer)

(***************************************************************************)
(* Waypoint upload: links may lag before the operator loads a file; then   *)
(* the vehicle requests waypoints, in any order, at any time.               *)
(* The operator runs no download while the upload is under way.            *)
(***************************************************************************)
WpRequests == {WaypointRequest(i) : i \in 0..(MaxWp - 1)}

InitWp == StartState(MaxLinks, MaxOutputs, 0, FALSE)

\* before the load: link 1 carries the current stream, the others an older one
LagWp ==
    /\ obs.load.n = 0
    /\ \E l \in Links :
           process_master(l, <<Attitude(IF l = 1 THEN 2000001 ELSE 1000000)>>)

\* the vehicle sends the requests of one upload over one link
RecvWp ==
    /\ obs.load.n # 0
    /\ \E l \in Links :
           /\ obs.reqs # <<>> => l = obs.reqs[1].link
           /\ \E chunk \in OneMsg(WpRequests) : process_master(l, chunk)

\* the operator loads a file, always the same one, when no upload is under way
WpLoad ==
    /\ ~loading_waypoints
    /\ \E n \in 1..MaxWp : obs.load.n \in {0, n} /\ load_waypoints(n)

NextWp == LagWp \/ RecvWp \/ parse_buffer_callback \/ process_master_end \/ WpLoad \/ Tick

SpecWp == InitWp /\ [][NextWp]_vars

(***************************************************************************)
(* Loading over an upload: the operator loads files, empty ones too, at    *)
(* any time, while the vehicle asks for the first waypoint.                *)
(***************************************************************************)
InitReload == \E n \in 1..MaxLinks : StartState(n, MaxOutputs, 0, FALSE)

RecvReload ==
    \E l \in Links : process_master(l, <<WaypointRequest(0)>>)

WpLoadAny == \E n \in {0, MaxWp} : load_waypoints(n)

NextReload == RecvReload \/ parse_buffer_callback \/ process_master_end
                 \/ WpLoadAny

SpecReload == InitReload /\ [][NextReload]_vars

(***************************************************************************)
(* Waypoint operations left alone: the operator starts downloads and       *)
(* uploads, the vehicle answers or falls silent.  The engine thread is     *)
(* scheduled fairly and the clock keeps running; nothing obliges the       *)
(* vehicle to send.                                                        *)
(***************************************************************************)
IdleMsgs == {Heartbeat(1, 1), WaypointCount(1), Waypoint(0), WaypointRequest(0)}

InitIdle == StartState(MaxLinks, MaxOutputs, 0, FALSE)

RecvIdle == \E l \in Links, chunk \in OneMsg(IdleMsgs) : process_master(l, chunk)

\* a waypoint operation is under way
WpBusy == wp_op # "None" \/ loading_waypoints

\* the operator starts an operation when none is under way
WpDownloadIdle == ~WpBusy /\ \E op \in {"list", "save"} : cmd_wp_download(op)

WpLoadIdle == ~WpBusy /\ load_waypoints(MaxWp)

NextIdle == RecvIdle \/ parse_buffer_callback \/ process_master_end
               \/ WpDownloadIdle \/ WpLoadIdle \/ periodic_tasks \/ Tick

SpecIdle ==
    /\ InitIdle
    /\ [][NextIdle]_vars
    /\ WF_vars(parse_buffer_callback)
    /\ WF_vars(process_master_end)
    /\ WF_vars(periodic_tasks)
    /\ WF_vars(Tick)

(***************************************************************************)
(* Parameter exchanges: the operator sets RC1_MAX, and the vehicle answers   *)
(* with PARAM_VALUE messages, or not, while param_set polls.  The engine   *)
(* thread is scheduled fairly; the vehicle sends what it likes.            *)
(***************************************************************************)
ParamAcks == {ParamValue("RC1_MAX", 1500), ParamValue("RC1_MIN", 1000)}

InitParam == StartState(MaxLinks, MaxOutputs, 0, FALSE)

PollParam == \E m \in ParamAcks : param_set_poll_msg(m)

CmdParam == cmd_param_set("RC1_MAX")

NextParam == CmdParam \/ PollParam \/ param_set

SpecParam == InitParam /\ [][NextParam]_vars /\ WF_vars(param_set)

(***************************************************************************)
(* Radio set-up: the vehicle reports RC channel values and parameters,     *)
(* with and without settings.radiosetup.                                   *)
(***************************************************************************)
RcChannelsRaw(v) == [Msg("RC_CHANNELS_RAW") EXCEPT !.x = v]

RadioMsgs == {ParamValue("RC1_MAX", 1500), ParamValue("RC1_MIN", 1000),
              RcChannelsRaw(1500), RcChannelsRaw(900)}

InitRadio ==
    \E rs \in BOOLEAN :
        /\ BaseState(MaxLinks, MaxOutputs, 0, FALSE)
        /\ settings_radiosetup = rs
        /\ settings_mavfwd = 1
        /\ sitl_output = FALSE

RecvRadio ==
    /\ SumSeq(MasterIn) < MaxMsgs
    /\ \E l \in Links, chunk \in OneMsg(RadioMsgs) : process_master(l, chunk)

PollRadio == \E m \in RadioMsgs : param_set_poll_msg(m)

NextRadio == RecvRadio \/ parse_buffer_callback \/ parse_buffer_callback_radiosetup
                \/ process_master_end \/ PollRadio \/ param_set

SpecRadio == InitRadio /\ [][NextRadio]_vars

(***************************************************************************)
(* Setup mode: the program is started with or without --setup, and the     *)
(* operator enters and leaves setup mode while the links deliver bytes.    *)
(***************************************************************************)
SetupMsgs == {Heartbeat(1, 1), ParamValue("RC1_MIN", 1000), Msg("BAD_DATA"),
              Attitude(2000001)}

InitSetup ==
    \E n \in 1..MaxLinks, setup \in BOOLEAN : StartState(n, MaxOutputs, 0, setup)

RecvSetup == \E l \in Links, chunk \in OneMsg(SetupMsgs) : process_master(l, chunk)

NextSetup == RecvSetup \/ parse_buffer_callback \/ process_master_end
                \/ cmd_setup \/ setup_exit

SpecSetup == InitSetup /\ [][NextSetup]_vars

(***************************************************************************)
(* Specification SpecSlave: slaves send frames on the output links while   *)
(* the operator picks the preferred link and enters and leaves setup mode, *)
(* under every link health and every mavfwd setting.                       *)
(***************************************************************************)
MavfwdValues == {0, 1, 2}

InitSlave ==
    \E n \in 1..MaxLinks, fwd \in MavfwdValues, setup \in BOOLEAN :
      \E errs \in [1..n -> BOOLEAN] :
        /\ OptsState(WithErrors(errs), MaxOutputs, 0, setup, -1, -1)
        /\ settings_radiosetup = FALSE
        /\ settings_mavfwd = fwd
        /\ sitl_output = FALSE

RecvSlave == \E o \in 1..MaxOutputs, decoded \in BOOLEAN : process_mavlink(o, decoded)

SetLinkSlave == \E n \in DOMAIN mav_master : cmd_set_link(n)

NextSlave == RecvSlave \/ SetLinkSlave \/ cmd_setup \/ setup_exit

SpecSlave == InitSlave /\ [][NextSlave]_vars

(***************************************************************************)
(* Specification SpecMail: the operator types lines, or ends the input,    *)
(* while the engine loop serves the mailbox and one link.  Both threads    *)
(* keep running: the engine loop iterates every millisecond and the input  *)
(* thread polls every 10 ms.                                               *)
(***************************************************************************)
MailMsgs == {Heartbeat(1, 1)}

InitMail == StartState(1, 0, 0, FALSE)

RecvMail == \E chunk \in OneMsg(MailMsgs) : process_master(1, chunk)

EngineMail == main_loop_stdin \/ parse_buffer_callback \/ process_master_end

NextMail == input_loop \/ EngineMail \/ RecvMail

SpecMail == InitMail /\ [][NextMail]_vars /\ WF_vars(EngineMail)
                     /\ WF_vars(input_wait \/ input_put)

(***************************************************************************)
(* Specification SpecTarget: the program is started with none, one or both *)
(* of --target-system and --target-component, and heartbeats of two        *)
(* vehicles arrive on links that may lag.                                  *)
(***************************************************************************)
\* opts.TARGET_SYSTEM, opts.TARGET_COMPONENT: the default or a given value
TargetOpts == {-1, 7}

TargetMsgs == {Heartbeat(1, 1), Heartbeat(2, 3), Attitude(2000001), Attitude(1000000)}

InitTarget ==
    \E n \in 1..MaxLinks, ts \in TargetOpts, tc \in TargetOpts :
        /\ OptsState([i \in 1..n |-> NewLink], 0, 0, FALSE, ts, tc)
        /\ settings_radiosetup = FALSE
        /\ settings_mavfwd = 1
        /\ sitl_output = FALSE

RecvTarget == \E l \in Links, chunk \in OneMsg(TargetMsgs) : process_master(l, chunk)

NextTarget == RecvTarget \/ parse_buffer_callback \/ process_master_end

SpecTarget == InitTarget /\ [][NextTarget]_vars

(***************************************************************************)
(* Specification SpecHeart: heartbeats and other traffic arrive, or stop   *)
(* arriving, on links that may lag, while the clock runs and the engine    *)
(* loop audits the links.                                                  *)
(***************************************************************************)
HeartMsgs == {Heartbeat(1, 1), Attitude(2000001), Attitude(1000000)}

InitHeart == StartState(MaxLinks, 0, 0, FALSE)

RecvHeart == \E l \in Links, chunk \in OneMsg(HeartMsgs) : process_master(l, chunk)

NextHeart == RecvHeart \/ parse_buffer_callback \/ process_master_end
                \/ periodic_tasks \/ Tick

SpecHeart == InitHeart /\ [][NextHeart]_vars

(***************************************************************************)
(* Specification SpecFail: as SpecHeart, started with or without the       *)
(* options --target-system 1 --target-component 1, and before any traffic  *)
(* the operator may choose the preferred link with `set link <n>`.  Link 1 *)
(* carries the current stream and the other links an older one, so that a  *)
(* link lags only behind another link.                                     *)
(***************************************************************************)
FailMsgs(l) == {Heartbeat(1, 1), Attitude(IF l = 1 THEN 2000001 ELSE 1000000)}

FailTargets == {-1, 1}

InitFail ==
    \E t \in FailTargets :
        /\ OptsState([i \in 1..MaxLinks |-> NewLink], 0, 0, FALSE, t, t)
        /\ settings_radiosetup = FALSE
        /\ settings_mavfwd = 1
        /\ sitl_output = FALSE

RecvFail == \E l \in Links : \E chunk \in OneMsg(FailMsgs(l)) : process_master(l, chunk)

SetLinkFail == obs.work = 0 /\ \E n \in DOMAIN mav_master : cmd_set_link(n)

NextFail == RecvFail \/ parse_buffer_callback \/ process_master_end
               \/ periodic_tasks \/ Tick \/ SetLinkFail

SpecFail == InitFail /\ [][NextFail]_vars

(***************************************************************************)
(* Specification SpecSched: the scheduler passes of the engine loop, with  *)
(* or without a SITL output and started with or without --setup, while     *)
(* heartbeats arrive, the clock runs, and the operator sets RC overrides   *)
(* (PWM values in range) and enters and leaves setup mode.                 *)
(***************************************************************************)
SchedMsgs == {Heartbeat(1, 1)}

RcChannels == {1, 9}

RcValues == {0, 1500}

InitSched ==
    \E setup \in BOOLEAN, sitl \in BOOLEAN :
        /\ BaseState(MaxLinks, 0, 0, setup)
        /\ settings_radiosetup = FALSE
        /\ settings_mavfwd = 1
        /\ sitl_output = sitl

\* the vehicle is heard on the first link only
RecvSched == \E chunk \in OneMsg(SchedMsgs) : process_master(1, chunk)

\* the passes: one event is due, or all of them are
DueSched == {{e} : e \in PeriodicEvents} \cup {PeriodicEvents}

PassSched == \E due \in DueSched : periodic_tasks_pass(due)

CmdRcSched == \E c \in RcChannels, v \in RcValues : cmd_rc(c, v)

NextSched == RecvSched \/ parse_buffer_callback \/ process_master_end
                \/ PassSched \/ CmdRcSched \/ cmd_setup \/ setup_exit \/ Tick

SpecSched == InitSched /\ [][NextSched]_vars

(***************************************************************************)
(* Specification SpecRc: the operator types `rc` and `switch` commands     *)
(* with integer arguments of every kind, with or without a SITL output,    *)
(* while the vehicle reports its flight-mode channel.                      *)
(***************************************************************************)
RcMsgs == {Heartbeat(1, 1), ParamValue("FLTMODE_CH", 5), ParamValue("FLTMODE_CH", 10)}

RcChannelArgs == {0, 1, 9}

RcValueArgs == {-1, 1500, 65536}

SwitchArgs == {-1, 3, 7}

InitRc ==
    \E sitl \in BOOLEAN :
        /\ BaseState(1, 0, 0, FALSE)
        /\ settings_radiosetup = FALSE
        /\ settings_mavfwd = 1
        /\ sitl_output = sitl

RecvRc == \E chunk \in OneMsg(RcMsgs) : process_master(1, chunk)

CmdRc == \E c \in RcChannelArgs, v \in RcValueArgs : cmd_rc(c, v)

CmdSwitch == \E v \in SwitchArgs : cmd_switch(v)

NextRc == RecvRc \/ parse_buffer_callback \/ process_master_end
             \/ CmdRc \/ CmdSwitch

SpecRc == InitRc /\ [][NextRc]_vars

(***************************************************************************)
(* Specification SpecDownload: the operator starts `wp list` and `wp save` *)
(* downloads and the vehicle answers with a count and with items, in       *)
(* order, repeated, or ahead of the loader.                                *)
(***************************************************************************)
DownloadMsgs == {WaypointCount(2), Waypoint(0), Waypoint(1), Waypoint(2)}

InitDownload == \E n \in 1..MaxLinks : StartState(n, 0, 0, FALSE)

RecvDownload ==
    \E l \in Links, chunk \in OneMsg(DownloadMsgs) : process_master(l, chunk)

CmdDownload == \E op \in {"list", "save"} : cmd_wp_download(op)

NextDownload == RecvDownload \/ parse_buffer_callback \/ process_master_end
                   \/ CmdDownload

SpecDownload == InitDownload /\ [][NextDownload]_vars

(***************************************************************************)
(* Specification SpecJournal: a ground station started with one master or  *)
(* with MaxJournalLinks of them (link numbers 0 to 4 and beyond) journals  *)
(* the heartbeats that arrive on any of them.                              *)
(***************************************************************************)
InitJournal == \E n \in {1, MaxJournalLinks} : StartState(n, 0, 0, FALSE)

RecvJournal ==
    \E l \in Links, chunk \in OneMsg({Heartbeat(1, 1)}) : process_master(l, chunk)

NextJournal == RecvJournal \/ parse_buffer_callback \/ process_master_end

SpecJournal == InitJournal /\ [][NextJournal]_vars

(***************************************************************************)
(* Specification SpecExit: the operator types lines or ends the input      *)
(* while the vehicle, started without --num-cells, reports its ADC and     *)
(* its system status.                                                      *)
(***************************************************************************)
ExitMsgs == {Heartbeat(1, 1), Msg("AP_ADC"), Msg("SYS_STATUS")}

InitExit == StartState(1, 0, 0, FALSE)

RecvExit == \E chunk \in OneMsg(ExitMsgs) : process_master(1, chunk)

NextExit == input_loop \/ main_loop_stdin \/ parse_buffer_callback
               \/ process_master_end \/ RecvExit

SpecExit == InitExit /\ [][NextExit]_vars

(***************************************************************************)
(* Specification SpecSnap: the engine thread dispatches messages line by   *)
(* line around the status mirror while the journal thread drains the       *)
(* queues and, when its status period has run out, writes the status       *)
(* snapshot.  The threads interleave between any two lines.                *)
(***************************************************************************)
SnapMsgs == {Heartbeat(1, 1), Msg("AP_ADC")}

InitSnap == \E n \in 1..MaxLinks : StartState(n, MaxOutputs, 0, FALSE)

RecvSnap == \E l \in Links, chunk \in OneMsg(SnapMsgs) : process_master(l, chunk)

NextSnap == RecvSnap \/ callback_store \/ mirror_init \/ mirror_count
               \/ process_master_end \/ log_writer \/ log_writer_status_write

SpecSnap == InitSnap /\ [][NextSnap]_vars

(***************************************************************************)
(* C1.  master(), for every combination of link_error flags and preferred  *)
(* index in 1..|links|: returns the preferred link when it is healthy,     *)
(* otherwise the lowest-indexed healthy link, and the preferred link when  *)
(* no link is healthy.                                                     *)
(***************************************************************************)
Healthy == {i \in Links : ~mav_master[i].linkerror}

C2_PreferredInRange ==
    ev.kind = "cmd_reset" => (1 <= settings_link /\ settings_link <= Len(mav_master))

(***************************************************************************)
(* Steps of master_callback, seen from the state before and after: the     *)
(* callback runs on message CbMsg of link CbLink.                          *)
(***************************************************************************)
CallbackStep == main_pc = "parse" /\ parse_buf # <<>> /\ parse_buf' = Tail(parse_buf)

CbMsg == Head(parse_buf)

CbLink == parse_link

\* the step handled the message: mirror updated, and fanned out unless bad data
CbProcessed ==
    /\ ~ev'.dropped
    /\ CbMsg.type \in DOMAIN msgs' /\ msgs'[CbMsg.type] = CbMsg
    /\ CbMsg.type # "BAD_DATA" =>
           \A o \in DOMAIN mav_outputs : mav_outputs'[o] = mav_outputs[o] + 1

\* the step dropped the message: no mirror update, nothing fanned out
CbDropped ==
    /\ ev'.dropped
    /\ msgs' = msgs /\ msg_count' = msg_count
    /\ mav_outputs' = mav_outputs

(***************************************************************************)
(* C3.  Delay onset: when a link that is not delayed receives a message    *)
(* with usec + 1,000,000 < highest_usec (the set-wide maximum updated with *)
(* this usec, no wrap), the link becomes link_delayed and that message is  *)
(* dropped; every later message on the link is dropped for as long as the  *)
(* link stays delayed.                                                     *)
(***************************************************************************)
C3_DelayOnset ==
    [][ CallbackStep =>
          /\ ( /\ CbMsg.usec # NoUsec
               /\ ~mav_master[CbLink].link_delayed
               /\ ~(CbMsg.usec + 60000000 < mav_master[CbLink].highest_usec)
               /\ CbMsg.usec + 1000000 < highest_usec'
               => mav_master'[CbLink].link_delayed /\ CbDropped )
          /\ ( mav_master[CbLink].link_delayed /\ mav_master'[CbLink].link_delayed
               => CbDropped )
      ]_vars

\* a link went delayed and a later message without usec was dropped on it
C3_Witness ==
    /\ ev.kind = "master_callback"
    /\ ev.m.type = "HEARTBEAT"
    /\ ev.dropped
    /\ mav_master[ev.link].link_delayed
    /\ mav_master[ev.link].highest_usec + 1000000 < highest_usec

(***************************************************************************)
(* C4 (as claimed).  Delay recovery: when a delayed link receives a        *)
(* message with usec + 500,000 >= highest_usec, equality included,         *)
(* link_delayed is cleared and the message is processed.                   *)
(***************************************************************************)
C4_RecoveryAtEquality ==
    [][ ( /\ CallbackStep
          /\ CbMsg.usec # NoUsec
          /\ mav_master[CbLink].link_delayed
          /\ CbMsg.usec + 500000 >= highest_usec' )
        => ~mav_master'[CbLink].link_delayed /\ CbProcessed
      ]_vars

(***************************************************************************)
(* C4 (amended).  Delay recovery: when a delayed link receives a message   *)
(* with usec + 500,000 > highest_usec (strictly), link_delayed is cleared  *)
(* and the message is processed; with usec + 500,000 = highest_usec the    *)
(* link stays delayed and the message is dropped.                          *)
(***************************************************************************)
C4_DelayRecovery ==
    [][ ( /\ CallbackStep
          /\ CbMsg.usec # NoUsec
          /\ mav_master[CbLink].link_delayed )
        => /\ ( CbMsg.usec + 500000 > highest_usec'
                => ~mav_master'[CbLink].link_delayed /\ CbProcessed )
           /\ ( /\ CbMsg.usec + 500000 = highest_usec'
                /\ ~(CbMsg.usec + 60000000 < mav_master[CbLink].highest_usec)
                => mav_master'[CbLink].link_delayed /\ CbDropped )
      ]_vars

\* a delayed link recovered: the recovering message was announced and handled
C4_Witness ==
    /\ ev.kind = "master_callback"
    /\ ev.said = <<"link OK">>
    /\ ev.m.usec # NoUsec
    /\ ~ev.dropped
    /\ ev.fanout
    /\ ~mav_master[ev.link].link_delayed
    /\ ev.m.usec < highest_usec

(***************************************************************************)
(* C5.  Wrap: a message on link l with usec + 60,000,000 < l.highest_usec  *)
(* leaves the set-wide highest_usec and every link's highest_usec equal to *)
(* that usec and every link not delayed; nothing of the onset or recovery  *)
(* rules runs for it (the only announcement is the wrap).                  *)
(***************************************************************************)
C5_Wrap ==
    [][ ( /\ CallbackStep
          /\ CbMsg.usec # NoUsec
          /\ CbMsg.usec + 60000000 < mav_master[CbLink].highest_usec )
        => /\ highest_usec' = CbMsg.usec
           /\ \A i \in Links : /\ mav_master'[i].highest_usec = CbMsg.usec
                               /\ ~mav_master'[i].link_delayed
           /\ ev'.said = <<"Time has wrapped">>
      ]_vars

\* a wrap happened with more than one link, after traffic on another link
C5_Witness ==
    /\ ev.kind = "master_callback"
    /\ ev.said = <<"Time has wrapped">>
    /\ Len(mav_master) > 1
    /\ \A i \in Links : MasterIn[i] > 0 /\ mav_master[i].highest_usec = ev.m.usec
    /\ highest_usec = ev.m.usec

(***************************************************************************)
(* C6.  A message that master_callback finds its link link_delayed for     *)
(* (after the usec handling) has no handler effect: target_system and      *)
(* target_component, heartbeat_error, every link's linkerror and           *)
(* last_heartbeat, the parameter table, the waypoint loader, wp_op,        *)
(* loading_waypoints and the status mirror are unchanged, and nothing is   *)
(* written to an output or to a master link.  Only MasterIn of the link,   *)
(* the delay state (link_delayed, highest_usec) and the journal queue      *)
(* change.                                                                 *)
(***************************************************************************)
C6_DelayedNoEffect ==
    [][ (CallbackStep /\ mav_master'[CbLink].link_delayed) =>
          /\ UNCHANGED <<hbVars, mav_param, wpVars, mirrorVars, mav_outputs,
                         battery_level, settingsVars, mav_error, setup_mode>>
          /\ \A i \in Links :
                /\ mav_master'[i].linkerror = mav_master[i].linkerror
                /\ mav_master'[i].last_heartbeat = mav_master[i].last_heartbeat
          /\ ev'.sent = <<>> /\ ~ev'.fanout
          /\ MasterIn' = [MasterIn EXCEPT ![CbLink] = @ + 1]
          /\ main_pc' = main_pc
      ]_vars

\* a waypoint request was dropped on a delayed link while an upload and a
\* download were both under way
C6_Witness ==
    /\ ev.kind = "master_callback"
    /\ ev.dropped
    /\ ev.m.type = "WAYPOINT_REQUEST"
    /\ mav_master[ev.link].link_delayed
    /\ loading_waypoints
    /\ wp_op = "list"
    /\ MasterIn[ev.link] > 1

(***************************************************************************)
(* C7 (as claimed).  The frames written to each output number the sum of   *)
(* MasterIn, minus the bad-data messages, minus the messages received      *)
(* while their link was link_delayed.                                      *)
(***************************************************************************)
C7_OutputCount ==
    main_pc = "loop" =>
        \A o \in DOMAIN mav_outputs :
            mav_outputs[o] = SumSeq(MasterIn) - obs.bad - obs.delayed

(***************************************************************************)
(* C7 (amended).  The frames written to each output number the sum of      *)
(* MasterIn minus the messages that were bad data or were dropped as       *)
(* delayed (a message that is both counts once) minus the messages whose   *)
(* handler raised.                                                         *)
(***************************************************************************)
C7_OutputCountOnce ==
    \A o \in DOMAIN mav_outputs :
        mav_outputs[o] = SumSeq(MasterIn) - obs.bad_or_delayed - obs.raised

\* bad data arrived on a delayed link, and other frames were fanned out
C7_Witness ==
    /\ ev.kind = "master_callback"
    /\ ev.m.type = "BAD_DATA"
    /\ ev.dropped
    /\ \A o \in DOMAIN mav_outputs : mav_outputs[o] > 0
    /\ DOMAIN mav_outputs # {}

(***************************************************************************)
(* C8.  Every frame the engine puts on the parsed log queue is eventually  *)
(* written to the parsed log file by the journal thread, whether or not    *)
(* more raw bytes arrive: once k frames have been enqueued, the file       *)
(* eventually holds k frames.                                              *)
(***************************************************************************)
Enqueued == Len(logfile) + Len(logqueue)

C8_JournalWritten ==
    \A k \in 1..MaxMsgs : (Enqueued >= k) ~> (Len(logfile) >= k)

(***************************************************************************)
(* C9 (as claimed).  A WAYPOINT_REQUEST that arrives more than 10 s after  *)
(* the last upload activity has no waypoint frame sent for it and leaves   *)
(* loading_waypoints false.                                                *)
(***************************************************************************)
CbRequest == CallbackStep /\ CbMsg.type = "WAYPOINT_REQUEST"

CbLate == now > loading_waypoint_lasttime + WaypointTimeout

C9_TimeoutAnyLink ==
    [][ (CbRequest /\ CbLate) => (ev'.sent = <<>> /\ ~loading_waypoints') ]_vars

(***************************************************************************)
(* C9 (amended).  A WAYPOINT_REQUEST that arrives on a link that is not    *)
(* link_delayed more than 10 s after the last upload activity has no       *)
(* waypoint frame sent for it and leaves loading_waypoints false; while    *)
(* loading_waypoints is false no request is served, on any link, and only  *)
(* `wp load` makes it true again.                                          *)
(***************************************************************************)
C9_UploadTimeout ==
    [][ /\ (CbRequest /\ CbLate /\ ~mav_master'[CbLink].link_delayed)
              => (ev'.sent = <<>> /\ ~loading_waypoints')
        /\ (CbRequest /\ ~loading_waypoints)
              => (ev'.sent = <<>> /\ ~loading_waypoints')
        /\ (~loading_waypoints /\ loading_waypoints') => ev'.kind = "wp_load"
      ]_vars

\* the first request of an upload came late on a healthy link and was refused,
\* and so was the request after it
C9_Witness ==
    /\ obs.load.n >= 1
    /\ Len(obs.reqs) = 2
    /\ obs.reqs[1].at > obs.load.at + WaypointTimeout
    /\ ~obs.reqs[1].dropped /\ ~obs.reqs[2].dropped
    /\ obs.reqs[1].sent = <<>> /\ obs.reqs[2].sent = <<>>
    /\ ~loading_waypoints

(***************************************************************************)
(* C10.  After `wp load` of a file of n >= 1 waypoints, while the requests *)
(* seen since are seq 0, 1, ... in order, each on a link that is not       *)
(* delayed and each at most 10 s after the one before (the first at most   *)
(* 10 s after the load): the request for seq j is answered with exactly    *)
(* the file's waypoint j, sent to the requesting link, and                 *)
(* loading_waypoints is true until the request for seq n-1 has been served *)
(* and false from then on.                                                 *)
(***************************************************************************)
PrevActivity(j) == IF j = 1 THEN obs.load.at ELSE obs.reqs[j - 1].at

HappyPath ==
    /\ obs.load.n >= 1
    /\ obs.load.ok
    /\ Len(obs.reqs) <= obs.load.n
    /\ \A j \in 1..Len(obs.reqs) :
          /\ obs.reqs[j].seq = j - 1
          /\ ~obs.reqs[j].dropped
          /\ obs.reqs[j].at - PrevActivity(j) <= WaypointTimeout

C10_UploadHappyPath ==
    HappyPath =>
        /\ \A j \in 1..Len(obs.reqs) :
              obs.reqs[j].sent = <<Sent(obs.reqs[j].link, FileWaypoint(j - 1))>>
        /\ loading_waypoints <=> (Len(obs.reqs) < obs.load.n)

\* a whole file of two or more waypoints went up, over a link other than the
\* one the count was sent to, with a full 10 s before a request
C10_Witness ==
    /\ HappyPath
    /\ obs.load.n >= 2
    /\ Len(obs.reqs) = obs.load.n
    /\ obs.reqs[1].link # settings_link
    /\ \E j \in 1..Len(obs.reqs) :
          obs.reqs[j].at - PrevActivity(j) = WaypointTimeout
    /\ ~loading_waypoints

(***************************************************************************)
(* C11.  After `wp load` of a file with no waypoints the upload machine is *)
(* idle, whatever state the command was given in: loading_waypoints is     *)
(* false and no WAYPOINT_COUNT was sent.                                   *)
(***************************************************************************)
C11_EmptyLoadIdle ==
    (ev.kind = "wp_load" /\ ev.arg = 0) =>
        /\ ~loading_waypoints
        /\ \A i \in 1..Len(ev.sent) : ev.sent[i].frame.type # "WAYPOINT_COUNT"

(***************************************************************************)
(* C12.  A waypoint operation recovers to idle on inactivity: once a       *)
(* download is started (wp_op set) or an upload is under way               *)
(* (loading_waypoints), either the vehicle sends something more or the     *)
(* operation eventually returns to idle.  The operation is one started at  *)
(* StartTime, so that the clock has MaxTime seconds of silence ahead.      *)
(***************************************************************************)
C12_RecoversIdle ==
    \A k \in 0..MaxMsgs :
        (WpBusy /\ obs.work = k /\ now = StartTime)
            ~> (~WpBusy \/ obs.work > k)

(***************************************************************************)
(* C13.  param_set(name, value) sends PARAM_SET at least once and at most  *)
(* 3 times, sleeps at most 1 s (ten times 0.1 s) after each send, always   *)
(* terminates, and returns success exactly when recv_match returned, in    *)
(* one of those windows, a PARAM_VALUE whose param_id is name; otherwise   *)
(* it returns timeout.                                                     *)
(***************************************************************************)
C13_ParamSet ==
    /\ [](ps.slept <= PollsPerWindow /\ ps.sends <= ParamRetries)
    /\ []((ev.kind = "param_set" /\ ~ev.raised) =>
             /\ 1 <= ev.arg.sends /\ ev.arg.sends <= ParamRetries
             /\ ev.ret <=> (ev.arg.name \in ev.arg.seen))
    /\ (main_pc = "param_set") ~> (main_pc # "param_set")

\* an exchange succeeded on its second send, after a PARAM_VALUE for another
\* parameter had come in
C13_Witness ==
    /\ ev.kind = "param_set"
    /\ ev.ret
    /\ ev.arg.sends = 2
    /\ ev.arg.seen = {"RC1_MIN", "RC1_MAX"}

(***************************************************************************)
(* C14.  The blocking param_set exchange runs only for an operator         *)
(* command, never from the dispatch of an inbound message.                 *)
(***************************************************************************)
C14_OnlyFromCommand == ps.pc # "idle" => ps.origin = "command"

(***************************************************************************)
(* C15.  The engine loop never unwinds: whatever the links deliver, the    *)
(* engine thread keeps iterating.                                          *)
(***************************************************************************)
C15_EngineAlive == main_pc # "dead"

(***************************************************************************)
(* C16.  process_master in setup mode enqueues the raw bytes to the raw    *)
(* log queue and changes nothing else of the engine state: nothing is      *)
(* parsed or dispatched, so MasterIn, the links' delay and health state,   *)
(* the status mirror, the parameter table, mav_error and the outputs are   *)
(* unchanged.                                                              *)
(***************************************************************************)
ProcessMasterStep ==
    main_pc = "loop" /\ Len(logqueue_raw') = Len(logqueue_raw) + 1

C16_SetupPassThrough ==
    [][ (ProcessMasterStep /\ setup_mode) =>
          /\ logqueue_raw = SubSeq(logqueue_raw', 1, Len(logqueue_raw))
          /\ UNCHANGED <<settingsVars, mav_master, mav_outputs, mav_param,
                         logqueue, logfile, logfile_raw, statusVars, parseVars>>
      ]_vars

\* bytes holding a heartbeat came in and were passed through in setup mode,
\* after the same link had been parsed outside setup mode
C16_Witness ==
    /\ ev.kind = "process_master"
    /\ setup_mode
    /\ main_pc = "loop"
    /\ logqueue_raw # <<>>
    /\ logqueue_raw[Len(logqueue_raw)] = <<Heartbeat(1, 1)>>
    /\ MasterIn[ev.link] > 0
    /\ Len(logqueue_raw) > SumSeq(MasterIn)

(***************************************************************************)
(* C17.  A frame from an output link that decodes is written to the        *)
(* current master, as master() chooses it at that moment, exactly when     *)
(* mavfwd is non-zero and setup_mode is false, and is counted in Slave; a  *)
(* frame that fails to decode is neither forwarded nor counted.            *)
(***************************************************************************)
C17_SlaveForward ==
    [][ (main_pc = "loop" /\ ev'.kind = "process_mavlink") =>
          /\ ev'.arg =>
                /\ (settings_mavfwd # 0 /\ ~setup_mode)
                      => ev'.sent = <<Sent(master, SlaveFrame)>>
                /\ ~(settings_mavfwd # 0 /\ ~setup_mode) => ev'.sent = <<>>
                /\ Slave' = Slave + 1
          /\ ~ev'.arg => (ev'.sent = <<>> /\ Slave' = Slave) ]_vars

\* a decoded frame was forwarded to a master other than the preferred link,
\* with mavfwd at a non-zero value other than 1
C17_Witness ==
    /\ ev.kind = "process_mavlink"
    /\ ev.arg
    /\ settings_mavfwd = 2
    /\ Len(ev.sent) = 1
    /\ ev.sent[1].link # settings_link
    /\ Slave = 2

(***************************************************************************)
(* C18.  The operator mailbox, under every interleaving of input_loop and  *)
(* main_loop: the lines the engine has handled are always the first of the *)
(* lines placed, in the same order and each once, with at most one placed  *)
(* line outstanding; a pending line is never replaced by another line; the *)
(* engine clears a line only after handling that line; and every placed    *)
(* line is eventually handled.                                             *)
(***************************************************************************)
HandledInOrder ==
    /\ Len(obs.handled) <= Len(obs.placed)
    /\ obs.handled = SubSeq(obs.placed, 1, Len(obs.handled))
    /\ Len(obs.placed) <= Len(obs.handled) + 1

NoOverwrite == rl_line # NoLine => rl_line' \in {rl_line, NoLine}

ClearsHandled ==
    (rl_line # NoLine /\ rl_line' = NoLine) =>
        /\ obs.handled # <<>>
        /\ obs.handled[Len(obs.handled)] = rl_line

C18_Mailbox ==
    /\ []HandledInOrder
    /\ [][NoOverwrite /\ ClearsHandled]_vars
    /\ \A k \in 1..MaxLines :
          (Len(obs.placed) >= k) ~> (Len(obs.handled) >= k)

\* two lines went through the mailbox while the link was served, and the
\* input has ended
C18_Witness ==
    /\ Len(obs.placed) >= 2
    /\ obs.handled = obs.placed
    /\ rl_line = NoLine
    /\ status_exit
    /\ MasterIn[1] > 0

(***************************************************************************)
(* C19.  As stated: over the usec-carrying messages of any link, each      *)
(* link's highest_usec never decreases, except at a step where a wrap is   *)
(* detected.                                                               *)
(***************************************************************************)
WrapDetected ==
    /\ CbMsg.usec # NoUsec
    /\ usec_wrapped(CbMsg.usec, mav_master[CbLink].highest_usec)

C19_LinkMonotone ==
    [][ (CallbackStep /\ ~WrapDetected) =>
          \A i \in Links : mav_master'[i].highest_usec >= mav_master[i].highest_usec
      ]_vars

(***************************************************************************)
(* C19, as the code has it: except at a wrap, the set-wide highest_usec    *)
(* never decreases; the highest_usec of the link a usec-carrying message   *)
(* arrives on becomes that usec, which may be lower than before by up to   *)
(* 60,000,000, and no other link's highest_usec changes.                   *)
(***************************************************************************)
C19_SetMonotone ==
    [][ (CallbackStep /\ ~WrapDetected) =>
          /\ highest_usec' >= highest_usec
          /\ CbMsg.usec # NoUsec =>
                /\ mav_master'[CbLink].highest_usec = CbMsg.usec
                /\ CbMsg.usec + WrapUsec >= mav_master[CbLink].highest_usec
                /\ highest_usec' >= CbMsg.usec
          /\ \A i \in Links \ {CbLink} :
                mav_master'[i].highest_usec = mav_master[i].highest_usec
      ]_vars

\* the only link has fallen back from 2,000,001 to 1,500,001 without a wrap
C19_Witness ==
    /\ ev.kind = "master_callback"
    /\ Len(mav_master) = 1
    /\ ev.said = <<>>
    /\ ev.m.usec = 1500001
    /\ mav_master[1].highest_usec = 1500001
    /\ highest_usec = 2000001

(***************************************************************************)
(* C20.  In every reachable state target_system and target_component are   *)
(* both -1, or both those of the source of the most recently received      *)
(* HEARTBEAT, whatever target options the program was started with and     *)
(* whatever the delay state of the links.                                  *)
(***************************************************************************)
C20_TargetsPaired ==
    \/ target_system = -1 /\ target_component = -1
    \/ /\ obs.hb # NoMsg
       /\ target_system = obs.hb.srcSystem
       /\ target_component = obs.hb.srcComponent

(***************************************************************************)
(* C21.  A HEARTBEAT processed on a link that is not delayed leaves         *)
(* heartbeat_error false, that link's linkerror false, and the engine's    *)
(* and that link's last_heartbeat at the current time; no other link's     *)
(* linkerror or last_heartbeat changes.                                    *)
(***************************************************************************)
C21_HeartbeatEffect ==
    [][ (CallbackStep /\ CbMsg.type = "HEARTBEAT" /\ ~ev'.dropped) =>
          /\ ~heartbeat_error'
          /\ ~mav_master'[CbLink].linkerror
          /\ last_heartbeat' = now
          /\ mav_master'[CbLink].last_heartbeat = now
          /\ \A i \in Links \ {CbLink} :
                /\ mav_master'[i].linkerror = mav_master[i].linkerror
                /\ mav_master'[i].last_heartbeat = mav_master[i].last_heartbeat
      ]_vars

\* after an outage on every link, a heartbeat at a later time has brought
\* one link back and left the other down
C21_Witness ==
    /\ ev.kind = "master_callback"
    /\ ev.m.type = "HEARTBEAT"
    /\ ~ev.dropped
    /\ now > StartTime
    /\ last_heartbeat = now
    /\ ~heartbeat_error
    /\ \E i \in Links : i # ev.link /\ mav_master[i].linkerror
    /\ ~mav_master[ev.link].linkerror

(***************************************************************************)
(* C22.  The heartbeat audit: when more than 5 s have passed since the     *)
(* last heartbeat, heartbeat_error is set, and the loss is announced only  *)
(* if heartbeat_error was not set already; every link that is silent for   *)
(* more than 5 s and not yet in error is put in error and announced once,  *)
(* and no other link is announced or changed.                              *)
(***************************************************************************)
\* a pass of the audit: the clock and the link traffic stand still
AuditStep ==
    /\ main_pc = "loop"
    /\ ev'.kind = "check_link_status"
    /\ now' = now
    /\ parseVars' = parseVars

SaidOf(said, i) == {k \in 1..Len(said) : said[k] = [text |-> "link down", link |-> i]}

C22_AuditOnce ==
    [][ AuditStep =>
          LET late == last_heartbeat # 0 /\ now > last_heartbeat + 5
          IN  /\ late => heartbeat_error'
              /\ ~late => heartbeat_error' = heartbeat_error
              /\ (\E k \in 1..Len(ev'.said) :
                     ev'.said[k] = [text |-> "no heartbeat", link |-> 0])
                    <=> (late /\ ~heartbeat_error)
              /\ \A i \in Links :
                    LET down == ~mav_master[i].linkerror
                                /\ now > mav_master[i].last_heartbeat + 5
                    IN  /\ down => /\ mav_master'[i].linkerror
                                   /\ Cardinality(SaidOf(ev'.said, i)) = 1
                        /\ ~down => /\ mav_master'[i] = mav_master[i]
                                    /\ SaidOf(ev'.said, i) = {}
      ]_vars

(***************************************************************************)
(* C23.  A scheduler pass made while setup_mode is true or target_system   *)
(* is -1 does nothing: MasterOut, the error flags of the engine and of     *)
(* every link and all other state are unchanged, and no frame (heartbeat,  *)
(* stream-rate request, RC override) and no announcement is emitted.       *)
(***************************************************************************)
\* a scheduler pass: the clock and the link traffic stand still
PassStep ==
    /\ main_pc = "loop"
    /\ ev'.kind = "periodic_tasks"
    /\ ev' # ev
    /\ now' = now
    /\ parse_buf' = parse_buf /\ parse_link' = parse_link

C23_SchedulerSkipped ==
    [][ (PassStep /\ (setup_mode \/ target_system = -1)) =>
          /\ ev'.sent = <<>>
          /\ ev'.said = <<>>
          /\ ~ev'.ret
          /\ UNCHANGED <<settingsVars, mav_master, mav_outputs, mav_param,
                         journalVars, statusVars, parseVars, now, obs>>
      ]_vars

\* a pass with every event due was skipped in setup mode, with the target
\* known, the heartbeat overdue and an override set
C23_Witness ==
    /\ ev.kind = "periodic_tasks"
    /\ ev.arg = PeriodicEvents
    /\ ~ev.ret
    /\ setup_mode
    /\ target_system # -1
    /\ status_override # ZeroOverride
    /\ now > last_heartbeat + HeartbeatTimeout
    /\ ~heartbeat_error

(***************************************************************************)
(* C28.  In a scheduler pass that is not skipped and in which the override *)
(* trigger fires, an RC override frame is emitted exactly when the         *)
(* override vector is not all zero; it is one frame, carrying the eight    *)
(* values, written to the SITL output when there is one (and then no       *)
(* override goes to a master), otherwise to the master that master()       *)
(* returns.                                                                *)
(***************************************************************************)
RcFrames(sent) ==
    {k \in 1..Len(sent) : sent[k].frame.type = "RC_CHANNELS_OVERRIDE"}

C28_OverrideTrigger ==
    [][ (PassStep /\ ~pass_skipped /\ "override" \in ev'.arg) =>
          /\ (RcFrames(ev'.sent) # {}) <=> (status_override # ZeroOverride)
          /\ Cardinality(RcFrames(ev'.sent)) <= 1
          /\ \A k \in RcFrames(ev'.sent) :
                /\ ev'.sent[k].frame.x = status_override
                /\ ev'.sent[k].link = IF sitl_output THEN SitlLink ELSE master
      ]_vars

\* a pass with every event due wrote the override to the SITL output, and
\* heartbeats, but no override, to the masters
C28_Witness ==
    /\ ev.kind = "periodic_tasks"
    /\ ev.ret
    /\ ev.arg = PeriodicEvents
    /\ sitl_output
    /\ status_override[1] = 1500
    /\ \E k \in RcFrames(ev.sent) : ev.sent[k].link = SitlLink
    /\ \E k \in 1..Len(ev.sent) : ev.sent[k].link = 1

(***************************************************************************)
(* C27.  After any `rc <ch> <pwm>` and `switch <n>` commands, whatever     *)
(* their integer arguments, the override vector has eight entries, each in *)
(* 0..65535; and a command rejected for its channel or its switch value    *)
(* leaves the vector unchanged.                                            *)
(***************************************************************************)
C27_OverrideVector ==
    /\ [](/\ Len(status_override) = 8
          /\ \A i \in 1..Len(status_override) : IsUint16(status_override[i]))
    /\ [][ (ev'.kind \in {"cmd_rc", "cmd_switch"} /\ ~ev'.ret)
            => status_override' = status_override ]_vars

(***************************************************************************)
(* C24.  Fan-out ordering: a frame is written to the outputs only by a     *)
(* callback that has run the frame's handler to its end and has put the    *)
(* frame in the status mirror: the handler did not raise, its effect is in *)
(* the state (for SYS_STATUS the battery level, for HEARTBEAT the target   *)
(* and the heartbeat time, for PARAM_VALUE the parameter), the last        *)
(* message of the type is this frame and the count of the type is one      *)
(* more.                                                                   *)
(***************************************************************************)
C24_FanOutAfterEffect ==
    [][ (CallbackStep /\ mav_outputs' # mav_outputs) =>
          /\ ~ev'.raised /\ ~ev'.dropped
          /\ main_pc' # "dead"
          /\ CbMsg.type \in DOMAIN msgs' /\ msgs'[CbMsg.type] = CbMsg
          /\ msg_count'[CbMsg.type] =
                (IF CbMsg.type \in DOMAIN msg_count THEN msg_count[CbMsg.type]
                 ELSE 0) + 1
          /\ CbMsg.type = "SYS_STATUS" => battery_level' = CbMsg.x
          /\ CbMsg.type = "HEARTBEAT" =>
                /\ last_heartbeat' = now
                /\ target_system' = CbMsg.srcSystem
          /\ CbMsg.type = "PARAM_VALUE" =>
                mav_param'[CbMsg.param_id] = CbMsg.param_value
      ]_vars

\* a second SYS_STATUS was handled and went to every output
C24_Witness ==
    /\ ev.kind = "master_callback"
    /\ ev.m.type = "SYS_STATUS"
    /\ ev.fanout
    /\ battery_level = ev.m.x
    /\ msg_count["SYS_STATUS"] = 2
    /\ \A o \in DOMAIN mav_outputs : mav_outputs[o] >= 2

(***************************************************************************)
(* C25.  A WAYPOINT processed while a download is active: the loader grows *)
(* by exactly that item when seq equals the loader's count and is          *)
(* unchanged when seq is below or above it; then, if seq + 1 is below      *)
(* expected_count, a request for seq + 1 is sent on that link and the      *)
(* operation stays active, otherwise nothing is requested and wp_op        *)
(* becomes None.                                                           *)
(***************************************************************************)
C25_DownloadItem ==
    [][ ( /\ CallbackStep
          /\ CbMsg.type = "WAYPOINT"
          /\ wp_op # "None"
          /\ ~ev'.dropped ) =>
          /\ CbMsg.seq = Len(wploader.wpoints)
                => wploader'.wpoints = Append(wploader.wpoints, CbMsg)
          /\ CbMsg.seq # Len(wploader.wpoints)
                => wploader'.wpoints = wploader.wpoints
          /\ wploader'.expected_count = wploader.expected_count
          /\ IF CbMsg.seq + 1 < wploader.expected_count
             THEN /\ ev'.sent = <<Sent(CbLink, [Msg("WAYPOINT_REQUEST")
                                                 EXCEPT !.seq = CbMsg.seq + 1])>>
                  /\ wp_op' = wp_op
             ELSE /\ ev'.sent = <<>>
                  /\ wp_op' = "None"
      ]_vars

\* a repeated item was ignored and the next one asked for again
C25_Witness ==
    /\ ev.kind = "master_callback"
    /\ ev.m.type = "WAYPOINT"
    /\ ev.m.seq = 0
    /\ Len(wploader.wpoints) = 1
    /\ msg_count["WAYPOINT"] = 2
    /\ wp_op = "save"
    /\ Len(ev.sent) = 1

(***************************************************************************)
(* C26.  The header of a parsed-log record, for every link number: the low *)
(* 2 bits of the timestamp are link_num & 3, all its other bits are those  *)
(* of the wall-clock microsecond timestamp, and the frame follows          *)
(* unchanged.                                                              *)
(***************************************************************************)
C26_RecordHeader ==
    [][ (CallbackStep /\ Len(logqueue') = Len(logqueue) + 1) =>
          LET r == logqueue'[Len(logqueue')]
          IN  /\ r.stamp % 4 = (CbLink - 1) % 4
              /\ r.stamp \div 4 = get_usec \div 4
              /\ r.frame = CbMsg
      ]_vars

(***************************************************************************)
(* C29.  Cancellation: the engine loop ends only through the exit flag     *)
(* that the input thread sets, by returning at the top of an iteration;    *)
(* it never ends for another reason, and once it has returned no operator  *)
(* line and no link data is processed.                                     *)
(***************************************************************************)
C29_Cancellation ==
    /\ [](main_pc \in {"exited", "dead"} => status_exit)
    /\ [][ main_pc = "exited" =>
              UNCHANGED <<main_pc, obs, MasterIn, mirrorVars, logqueue,
                          logqueue_raw, rl_line>> ]_vars

(***************************************************************************)
(* C30.  A link is link_delayed only while it lags the set-wide clock: in  *)
(* every reachable state every delayed link has highest_usec + 500,000 <=  *)
(* the set-wide highest_usec, and every link has highest_usec <= the       *)
(* set-wide highest_usec.                                                  *)
(***************************************************************************)
C30_DelayedLags ==
    \A i \in Links :
        /\ mav_master[i].link_delayed
              => mav_master[i].highest_usec + RecoverUsec <= highest_usec
        /\ mav_master[i].highest_usec <= highest_usec

\* a delayed link has come to exactly 500,000 behind and is still delayed
C30_Witness ==
    \E i \in Links :
        /\ mav_master[i].link_delayed
        /\ mav_master[i].highest_usec + RecoverUsec = highest_usec
        /\ MasterIn[i] >= 2


(***************************************************************************)
(* C31.  With exactly one master link, that link is never marked           *)
(* link_delayed, whatever usec timestamps it delivers, and so none of its  *)
(* frames is dropped as delayed.                                           *)
(***************************************************************************)
C31_SingleLinkNeverDelayed ==
    Len(mav_master) = 1 =>
        /\ ~mav_master[1].link_delayed
        /\ ev.kind = "master_callback" => ~ev.dropped


(***************************************************************************)
(* C32.  Whenever a WAYPOINT finalizes a download (wp_op goes from list or *)
(* save to None), the loader holds exactly expected_count waypoints, those *)
(* with seq 0 .. expected_count - 1 in order.                              *)
(***************************************************************************)
C32_DownloadComplete ==
    [][ ( /\ CallbackStep
          /\ CbMsg.type = "WAYPOINT"
          /\ wp_op # "None"
          /\ wp_op' = "None" ) =>
          /\ Len(wploader'.wpoints) = wploader'.expected_count
          /\ \A i \in 1..Len(wploader'.wpoints) :
                wploader'.wpoints[i].seq = i - 1
      ]_vars


(***************************************************************************)
(* C33.  A waypoint upload is declared complete (loading_waypoints cleared *)
(* by a served request) only when every waypoint 0 .. count - 1 has been   *)
(* sent at least once since the load, whatever the order of the requests;  *)
(* and a request processed after completion is not served.                 *)
(***************************************************************************)
UploadCompletes ==
    /\ CallbackStep
    /\ CbMsg.type = "WAYPOINT_REQUEST"
    /\ ~ev'.dropped
    /\ wp_request_served(CbMsg)
    /\ ~loading_waypoints'

SentInUpload(o, i) ==
    \E j \in 1..Len(o.reqs) : o.reqs[j].seq = i /\ o.reqs[j].sent # <<>>

C33_UploadComplete ==
    /\ [][ UploadCompletes =>
              \A i \in 0..(Len(wploader.wpoints) - 1) : SentInUpload(obs', i)
         ]_vars
    /\ [][ ( /\ CallbackStep
             /\ CbMsg.type = "WAYPOINT_REQUEST"
             /\ ~loading_waypoints ) => ev'.sent = <<>>
         ]_vars


(***************************************************************************)
(* C34.  Failover and failback.  While the preferred link is in error and  *)
(* another link is healthy, master() is a healthy link other than the      *)
(* preferred one.  As soon as a HEARTBEAT arrives on the preferred link,   *)
(* its linkerror is cleared and master() is the preferred link again,      *)
(* also when the preferred link is link_delayed at that time.              *)
(***************************************************************************)
Preferred == master_link(settings_link, mav_master)

Failover ==
    ( /\ mav_master[Preferred].linkerror
      /\ \E i \in Links : ~mav_master[i].linkerror )
        => /\ master # Preferred
           /\ ~mav_master[master].linkerror

HeartbeatOnPreferred ==
    /\ CallbackStep
    /\ CbMsg.type = "HEARTBEAT"
    /\ CbLink = Preferred

C34_FailoverFailback ==
    /\ []Failover
    /\ [][ HeartbeatOnPreferred =>
              /\ ~mav_master'[CbLink].linkerror
              /\ master' = CbLink
         ]_vars

(***************************************************************************)
(* C34, as the code has it: failover as above.  A HEARTBEAT that arrives   *)
(* on the preferred link while it is not link_delayed clears its linkerror *)
(* and master() is the preferred link again.  A HEARTBEAT that arrives on  *)
(* it while it is link_delayed is dropped: no link's state changes and     *)
(* master() stays as it was.                                               *)
(***************************************************************************)
C34_FailbackWhenHandled ==
    /\ []Failover
    /\ [][ (HeartbeatOnPreferred /\ ~mav_master[CbLink].link_delayed) =>
              /\ ~mav_master'[CbLink].linkerror
              /\ master' = CbLink
         ]_vars
    /\ [][ (HeartbeatOnPreferred /\ mav_master[CbLink].link_delayed) =>
              /\ ev'.dropped
              /\ mav_master' = mav_master
              /\ master' = master
         ]_vars

\* the preferred link 2 was in error with link 1 healthy, and a heartbeat
\* on link 2 has brought master() back to it
C34_Witness ==
    /\ ev.kind = "master_callback"
    /\ ev.m.type = "HEARTBEAT"
    /\ ev.link = 2
    /\ Preferred = 2
    /\ ~ev.dropped
    /\ \E k \in 1..Len(ev.said) : ev.said[k] = "link OK"
    /\ ~mav_master[1].linkerror
    /\ master = 2


(***************************************************************************)
(* C35.  Status snapshot consistency under interleaving: whenever the      *)
(* journal thread is at the point where it can write the status snapshot,  *)
(* every message type in the mirror's last-message map has an entry of at  *)
(* least 1 in the count map; the snapshot never fails and the journal      *)
(* thread never stops.                                                     *)
(***************************************************************************)
MirrorConsistent ==
    \A t \in DOMAIN msgs : t \in DOMAIN msg_count /\ msg_count[t] >= 1

C35_SnapshotConsistent ==
    /\ (lw_pc = "drain_parsed" /\ logqueue = <<>>) => MirrorConsistent
    /\ lw_pc # "dead"

=============================================================================
